---- MODULE Spec2Model ----
(***************************************************************************)
(* A model of primerstat: the primer classification of a read              *)
(* (analyze_read), the FASTQ record source (FastqParser::next_record),     *)
(* the result sink (AnalysisWriter::process) and the streaming pipeline    *)
(* that connects them (process_reads), as written in src/src/main.back.rs. *)
(*                                                                         *)
(* Byte strings are sequences of one-character strings.  Option<T> is a    *)
(* sequence of length at most one: None is <<>>, Some(v) is <<v>>.         *)
(***************************************************************************)
EXTENDS Integers, Sequences, FiniteSets, TLC

VARIABLES
    record,        \* the FastqRecord handed to analyze_read
    primers,       \* the primer table: name -> <<seq, revcomp seq>>
    max_errors,    \* analyze_read's max_errors
    min_distance,  \* analyze_read's min_distance
    analysis,      \* what analyze_read returned (Option<ReadAnalysis>)
    called,        \* whether analyze_read has returned
    source,        \* what the byte streams of the run can deliver: the lines, by their
                   \* place in a record, and whether a read can fail with an I/O error
    parser1,       \* the reader of the first FastqParser
    parser2,       \* the reader of the second FastqParser (paired-end)
    nr_result,     \* what the last call of next_record returned
    nr_record,     \* the record the last call of next_record filled
    nr_first,      \* what the first read_line of that call returned
    nr_prev,       \* what the call before it returned
    nr_calls,      \* the number of calls of next_record made
    writer,        \* the AnalysisWriter: count, max_output, stats, the rows written
    consumed,      \* the numbers of the ReadAnalysis values process was called on
    write_failed,  \* whether a write of a row has failed
    unknown_count, \* how many of the values process was called on have no strand
    pc,            \* where the main thread of process_reads is
    min_overlap,
    max_mismatch_rate,
    record_count,
    current_batch,
    batch,         \* the batch process_batch is working on
    todo,          \* the places of batch that par_iter has not yet handed out
    tx,            \* whether the Sender is alive
    channel,       \* the messages sent and not yet received
    wpc,           \* where the writer thread is
    statistics,    \* what get_statistics returned
    io_failed,     \* whether a call of next_record has returned an I/O error
    called_after_io, \* whether next_record was called after one had returned an I/O error
    truncated,     \* whether a call of next_record has returned a truncation error
    record1,       \* the first record handed to merge_paired_reads
    record2,       \* the second
    merged,        \* what merge_paired_reads returned (Option<FastqRecord>)
    merge_done,    \* whether merge_paired_reads has returned
    primer_file,   \* the lines of the primer catalog load_primers reads
    loaded,        \* what load_primers returned, once it has
    analyses,      \* main.rs: the Vec process_reads_parallel has gathered
    collected      \* main.rs: what collect_statistics returned, once it has

classifyVars == <<record, primers, max_errors, min_distance, analysis, called>>

readerVars == <<source, parser1, parser2>>

callVars == <<nr_result, nr_record, nr_first, nr_prev, nr_calls>>

sinkVars == <<writer, consumed, write_failed, unknown_count>>

pipeVars == <<pc, min_overlap, max_mismatch_rate, record_count, current_batch, batch, todo,
              tx, channel, wpc, statistics, io_failed, called_after_io, truncated>>

mergeVars == <<record1, record2, merged, merge_done>>

loadVars == <<primer_file, loaded>>

collectVars == <<analyses, collected>>

vars == <<classifyVars, readerVars, callVars, sinkVars, pipeVars, mergeVars, loadVars, collectVars>>

-----------------------------------------------------------------------------
(* Bounds of the model. *)

\* the longest read sequence handed to analyze_read
MaxReadLen == 4

\* the largest max_errors tried
MaxErrors == 1

\* the largest min_distance tried
MaxMinDistance == 2

\* the most lines a byte stream delivers before it ends
MaxLines == 12

\* the records of a full batch (1000 in the program)
BatchSize == 2

\* the largest max_output tried
MaxOutput == 2

\* the most calls of process made on an AnalysisWriter that is driven alone
MaxProcess == 4

\* the most calls of next_record made on one parser when it is driven alone
MaxCalls == 3

\* the longest sequence of a record handed to merge_paired_reads alone
MaxMateLen == 2

\* the largest min_overlap merge_paired_reads is called with alone
MaxMinOverlap == 2

\* the most lines of a primer catalog
MaxCatalogLines == 2

\* the longest primer sequence of a catalog of one row
MaxPrimerLen == 3

\* the most records of a file a run reads
MaxRecords == 2

\* the most reads main.rs gathers the analyses of
MaxAnalyses == 3

-----------------------------------------------------------------------------
(* Values. *)

None == <<>>

Some(v) == <<v>>

IsSome(o) == Len(o) = 1

Min(a, b) == IF a <= b THEN a ELSE b

\* the bases of the reads and primers of the model
ReadBases == {"A", "T"}

\* the primer names of the model; String::cmp orders them as listed
NameOrder == <<"F", "R", "S">>

Names == {NameOrder[i] : i \in 1..Len(NameOrder)}

NameRank(n) == CHOOSE i \in 1..Len(NameOrder) : NameOrder[i] = n

\* a.0.cmp(b.0) == Less
NameLess(a, b) == NameRank(a) < NameRank(b)

\* the primer sequences of the model
PrimerSeqs == {<<"A", "A">>, <<"A", "T">>, <<"T", "A">>}

SeqsUpTo(S, n) == UNION {[1..k -> S] : k \in 1..n}

\* all orders in which a set can be enumerated
Orders(S) == {o \in [1..Cardinality(S) -> S] : \A x \in S : \E i \in DOMAIN o : o[i] = x}

-----------------------------------------------------------------------------
(* bio::alphabets::dna::revcomp *)

\* a complement that takes G to C and leaves C where it is
Complement_oneway(b) ==
    CASE b = "A" -> "T"
      [] b = "T" -> "A"
      [] b = "G" -> "C"
      [] OTHER -> b

Complement(b) ==
    CASE b = "A" -> "T"
      [] b = "T" -> "A"
      [] b = "C" -> "G"
      [] b = "G" -> "C"
      [] OTHER -> b

RECURSIVE revcomp(_)
revcomp(s) == IF s = <<>> THEN <<>> ELSE Append(revcomp(Tail(s)), Complement(Head(s)))

\* an entry of the table as load_primers builds it
PrimerEntry(seq) == <<seq, revcomp(seq)>>

-----------------------------------------------------------------------------
(* edlibAlignRs in mode EDLIB_MODE_HW (infix): the edit distance matrix of  *)
(* the query against the target.  A row is a sequence over the columns      *)
(* 0..Len(target), row[j + 1] being the cell of column j: in row i, the     *)
(* distance of the first i query characters to the best part of the target  *)
(* that ends at column j.                                                   *)

Min3(a, b, c) == Min(a, Min(b, c))

\* row i from row i - 1, the cells of the columns before Len(acc) being in acc
RECURSIVE FillRow(_, _, _, _)
FillRow(prev, c, t, acc) ==
    LET j == Len(acc) IN
    IF j > Len(t) THEN acc
    ELSE FillRow(prev, c, t,
                 Append(acc, Min3(prev[j] + (IF c = t[j] THEN 0 ELSE 1),
                                  prev[j + 1] + 1,
                                  acc[j] + 1)))

\* the last row of the matrix, from row i - 1
RECURSIVE LastRow(_, _, _, _)
LastRow(q, t, prev, i) ==
    IF i > Len(q) THEN prev
    ELSE LastRow(q, t, FillRow(prev, q[i], t, <<i>>), i + 1)

\* the last row when the query may start anywhere in the target (HW)
InfixRow(q, t) == LastRow(q, t, [j \in 1..Len(t) + 1 |-> 0], 1)

\* the last row when the query starts at the start of the target (SHW)
PrefixRow(q, t) == LastRow(q, t, [j \in 1..Len(t) + 1 |-> j - 1], 1)

RECURSIVE Reverse(_)
Reverse(s) == IF s = <<>> THEN <<>> ELSE Append(Reverse(Tail(s)), Head(s))

SetMin(S) == CHOOSE x \in S : \A y \in S : x <= y

SetMax(S) == CHOOSE x \in S : \A y \in S : x >= y

\* EDLIB_STATUS_OK
EDLIB_STATUS_OK == 0

\* The result of edlibAlignRs(query, target, {k, HW, PATH}) for a non-empty
\* query and target: the best distance over the end columns; no location and
\* distance -1 when it exceeds k >= 0 (k < 0: no limit); the end locations in
\* increasing order, and for each its start, found by the prefix alignment of
\* the reversed query on the reversed target up to that end, the furthest one.

\* the best distance of a last row
BestDistance(row) == SetMin({row[j + 1] : j \in 1..Len(row) - 1})

\* the first end column with the distance best
FirstEnd(row, best) == SetMin({j \in 1..Len(row) - 1 : row[j + 1] = best})

\* the furthest column of the reversed alignment with the distance best
FurthestEnd(rrow, best) == SetMax({j \in 1..Len(rrow) - 1 : rrow[j + 1] = best})

\* the start of the alignment that ends at column e0
StartOf(query, target, best, e0) ==
    e0 - FurthestEnd(PrefixRow(Reverse(query), Reverse(SubSeq(target, 1, e0))), best)

AlignResult(query, target, k, row, best) ==
    IF k >= 0 /\ best > k
    THEN [status |-> EDLIB_STATUS_OK, editDistance |-> -1,
          endLocations |-> None, startLocations |-> None]
    ELSE [status |-> EDLIB_STATUS_OK, editDistance |-> best,
          endLocations |-> Some(FirstEnd(row, best) - 1),
          startLocations |-> Some(StartOf(query, target, best, FirstEnd(row, best)))]

AlignRow(query, target, k, row) == AlignResult(query, target, k, row, BestDistance(row))

edlibAlignRs(query, target, k) == AlignRow(query, target, k, InfixRow(query, target))

\* align_sequence after the call, the distance not compared with max_errors
Located_unchecked(result, max_err) ==
    IF result.status # EDLIB_STATUS_OK THEN None
    ELSE IF result.endLocations = None \/ result.startLocations = None THEN None
    ELSE Some([edit_distance |-> result.editDistance,
               position |-> result.startLocations[1]])

\* align_sequence after the call of edlibAlignRs: Option<AlignmentResult>
Located(result, max_err) ==
    IF result.status # EDLIB_STATUS_OK \/ result.editDistance > max_err THEN None
    ELSE IF result.endLocations = None \/ result.startLocations = None THEN None
    ELSE Some([edit_distance |-> result.editDistance,
               position |-> result.startLocations[1]])

align_sequence(query, target, max_err) ==
    Located(edlibAlignRs(query, target, max_err), max_err)

\* the reads of the model
ReadSeqs == SeqsUpTo(ReadBases, MaxReadLen)

\* the number of a sequence of bases: sequences are counted by length, then
\* in the order of BaseOrder
BaseOrder == <<"A", "T">>

DigitOf(b) == CHOOSE d \in 1..Len(BaseOrder) : BaseOrder[d] = b

SeqCode[s \in Seq(ReadBases)] ==
    IF s = <<>> THEN 0
    ELSE SeqCode[SubSeq(s, 1, Len(s) - 1)] * Len(BaseOrder) + DigitOf(s[Len(s)])

RECURSIVE SeqOfCode(_)
SeqOfCode(c) ==
    IF c = 0 THEN <<>>
    ELSE Append(SeqOfCode((c - 1) \div Len(BaseOrder)),
                BaseOrder[((c - 1) % Len(BaseOrder)) + 1])

\* how many sequences of bases have at most n bases
RECURSIVE CodeCount(_)
CodeCount(n) == IF n = 0 THEN 1 ELSE 1 + Len(BaseOrder) * CodeCount(n - 1)

Queries == PrimerSeqs \cup {revcomp(p) : p \in PrimerSeqs}

QueryCodes == CodeCount(SetMax({Len(q) : q \in Queries}))

AlignKey(qc, tc, k) ==
    (qc * CodeCount(MaxReadLen) + tc) * (MaxErrors + 2) + (k + 1)

AlignAt(q, t, k) ==
    IF q \in Queries /\ t \in ReadSeqs THEN align_sequence(q, t, k) ELSE None

\* align_sequence on the primers and reads of the model, computed once and
\* kept under the numbers of the query and of the target
AlignCache ==
    [x \in 0..(AlignKey(QueryCodes, 0, -1) - 1) |->
        AlignAt(SeqOfCode(x \div ((MaxErrors + 2) * CodeCount(MaxReadLen))),
                SeqOfCode((x \div (MaxErrors + 2)) % CodeCount(MaxReadLen)),
                (x % (MaxErrors + 2)) - 1)]

\* align_sequence, taken from AlignCache where it holds the call
Align(query, target, max_err) ==
    IF query \in Queries /\ Len(target) \in 1..MaxReadLen /\ max_err \in -1..MaxErrors
    THEN AlignCache[AlignKey(SeqCode[query], SeqCode[target], max_err)]
    ELSE align_sequence(query, target, max_err)

\* create_primer_match
create_primer_match(result) ==
    IF IsSome(result)
    THEN [position |-> Some(result[1].position),
          errors |-> Some(result[1].edit_distance),
          found |-> TRUE]
    ELSE [position |-> None, errors |-> None, found |-> FALSE]

-----------------------------------------------------------------------------
(* analyze_read *)

\* i32::MAX, the initial best_score
I32Max == 2147483647

\* primer_pairs.sort_by(|a, b| a.0.cmp(b.0)): insertion of each name of the
\* iteration order at its place
RECURSIVE InsertByName(_, _)
InsertByName(sorted, n) ==
    IF sorted = <<>> THEN <<n>>
    ELSE IF NameLess(n, Head(sorted)) THEN <<n>> \o sorted
    ELSE <<Head(sorted)>> \o InsertByName(Tail(sorted), n)

RECURSIVE SortByName(_)
SortByName(order) ==
    IF order = <<>> THEN <<>>
    ELSE InsertByName(SortByName(SubSeq(order, 1, Len(order) - 1)), order[Len(order)])

\* Consider replacing the best hypothesis on an equal score too
Consider_tie(best, f, r, fname, rname, strand) ==
    IF IsSome(f) /\ IsSome(r) /\ f[1].position < r[1].position
       /\ f[1].edit_distance + r[1].edit_distance <= best.best_score
    THEN [best_score |-> f[1].edit_distance + r[1].edit_distance,
          best_result |-> Some([f_name |-> fname, r_name |-> rname, strand |-> strand,
                                f_match |-> create_primer_match(f),
                                r_match |-> create_primer_match(r)])]
    ELSE best

\* Consider without the test of the order of the two positions
Consider_noorder(best, f, r, fname, rname, strand) ==
    IF IsSome(f) /\ IsSome(r)
       /\ f[1].edit_distance + r[1].edit_distance < best.best_score
    THEN [best_score |-> f[1].edit_distance + r[1].edit_distance,
          best_result |-> Some([f_name |-> fname, r_name |-> rname, strand |-> strand,
                                f_match |-> create_primer_match(f),
                                r_match |-> create_primer_match(r)])]
    ELSE best

\* one strand check of the loop body, the two alignments f and r made: both
\* found, the order of the positions, and the strict comparison with
\* best_score
Consider(best, f, r, fname, rname, strand) ==
    IF IsSome(f) /\ IsSome(r)
    THEN IF f[1].position < r[1].position
         THEN IF f[1].edit_distance + r[1].edit_distance < best.best_score
              THEN [best_score |-> f[1].edit_distance + r[1].edit_distance,
                    best_result |-> Some([f_name |-> fname, r_name |-> rname,
                                          strand |-> strand,
                                          f_match |-> create_primer_match(f),
                                          r_match |-> create_primer_match(r)])]
              ELSE best
         ELSE best
    ELSE best

\* one strand check of the loop body, with its two calls of align_sequence
CheckStrand(best, fseq, rseq, fname, rname, strand, seq, max_err) ==
    Consider(best, Align(fseq, seq, max_err), Align(rseq, seq, max_err), fname, rname, strand)

\* the loop body reporting the names of the minus strand as those of the plus
CheckPair_sameroles(best, tbl, name1, name2, seq, max_err) ==
    CHOOSE after \in {CheckStrand(plus, tbl[name2][1], tbl[name1][2], name1, name2, "-",
                                  seq, max_err) :
                         plus \in {CheckStrand(best, tbl[name1][1], tbl[name2][2],
                                               name1, name2, "+", seq, max_err)}} : TRUE

\* the loop body for the pair (name1, name2): the plus strand, then the minus
CheckPair(best, tbl, name1, name2, seq, max_err) ==
    CHOOSE after \in {CheckStrand(plus, tbl[name2][1], tbl[name1][2], name2, name1, "-",
                                  seq, max_err) :
                         plus \in {CheckStrand(best, tbl[name1][1], tbl[name2][2],
                                               name1, name2, "+", seq, max_err)}} : TRUE

\* the inner loop: primer_pairs[i+1..]
RECURSIVE InnerLoop(_, _, _, _, _, _)
InnerLoop(best, tbl, sorted, i, j, args) ==
    IF j > Len(sorted) THEN best
    ELSE InnerLoop(CheckPair(best, tbl, sorted[i], sorted[j], args.seq, args.max_err),
                   tbl, sorted, i, j + 1, args)

\* the outer loop pairing every entry with itself too
RECURSIVE OuterLoop_self(_, _, _, _, _)
OuterLoop_self(best, tbl, sorted, i, args) ==
    IF i > Len(sorted) THEN best
    ELSE OuterLoop_self(InnerLoop(best, tbl, sorted, i, i, args), tbl, sorted, i + 1, args)

\* the outer loop: primer_pairs.iter().enumerate()
RECURSIVE OuterLoop(_, _, _, _, _)
OuterLoop(best, tbl, sorted, i, args) ==
    IF i > Len(sorted) THEN best
    ELSE OuterLoop(InnerLoop(best, tbl, sorted, i, i + 1, args), tbl, sorted, i + 1, args)

\* primers.iter().collect() in the HashMap's order, then sort_by the names
primer_pairs(order) == SortByName(order)

\* best_result after the loops over the sorted primer_pairs
BestResult(rec, tbl, sorted, max_err) ==
    OuterLoop([best_score |-> I32Max, best_result |-> None], tbl, sorted, 1,
              [seq |-> rec.seq, max_err |-> max_err]).best_result

\* the distance of a best result
DistanceOf(f_match, r_match) ==
    IF IsSome(f_match.position) /\ IsSome(r_match.position)
    THEN IF r_match.position[1] > f_match.position[1]
         THEN Some(r_match.position[1] - f_match.position[1])
         ELSE None
    ELSE None

\* IsDimerOf comparing with <= instead of <
IsDimerOf_le(distance, min_dist) ==
    IF IsSome(distance) THEN distance[1] <= min_dist ELSE FALSE

\* is_dimer of a distance
IsDimerOf(distance, min_dist) ==
    IF IsSome(distance) THEN distance[1] < min_dist ELSE FALSE

\* a default match that says found
default_match_found == [position |-> None, errors |-> None, found |-> TRUE]

default_match == [position |-> None, errors |-> None, found |-> FALSE]

\* the ReadAnalysis of the None arm
UnknownAnalysis(rec) ==
    [read_id |-> rec.id, length |-> Len(rec.seq), strand |-> "?",
     f_primer |-> "-", r_primer |-> "-",
     f_match |-> default_match, r_match |-> default_match,
     distance |-> None, is_dimer |-> FALSE]

\* the ReadAnalysis of the Some arm
FoundAnalysis(rec, b, min_dist) ==
    [read_id |-> rec.id, length |-> Len(rec.seq), strand |-> b.strand,
     f_primer |-> b.f_name, r_primer |-> b.r_name,
     f_match |-> b.f_match, r_match |-> b.r_match,
     distance |-> DistanceOf(b.f_match, b.r_match),
     is_dimer |-> IsDimerOf(DistanceOf(b.f_match, b.r_match), min_dist)]

\* the match on best_result giving nothing in the None arm
Classified_none(rec, best_result, min_dist) ==
    IF IsSome(best_result)
    THEN Some(FoundAnalysis(rec, best_result[1], min_dist))
    ELSE None

\* the match on best_result, and the Some(..) analyze_read returns
Classified(rec, best_result, min_dist) ==
    IF IsSome(best_result)
    THEN Some(FoundAnalysis(rec, best_result[1], min_dist))
    ELSE Some(UnknownAnalysis(rec))

\* analyze_read, from the sorted primer_pairs on
analyze_read(rec, tbl, sorted, max_err, min_dist) ==
    CHOOSE analysis_ \in {Classified(rec, best_result, min_dist) :
                             best_result \in {BestResult(rec, tbl, sorted, max_err)}} : TRUE

-----------------------------------------------------------------------------
(* The byte stream under a FastqParser.  What the stream holds is not       *)
(* stored: each read_line draws what the stream delivers next, a line, the  *)
(* end of the stream, or an I/O error.  The end of the stream, once         *)
(* delivered, is delivered by every later read_line (a file, a gzip member  *)
(* stream); an I/O error either goes away or stays.  A line is held without *)
(* its line end.                                                            *)

\* the lines of the model
IdLines == {<<"@", "a">>, <<"@", "b">>}

SeqLines == {<<"T", "A", "T">>, <<"A">>}

QualLines == {<<"I", "I", "I">>, <<"I">>}

Lines == IdLines \cup SeqLines \cup QualLines \cup {<<"+">>, <<>>}

\* the places of a line in a record, as next_record reads it
Places == {"id", "seq", "plus", "qual"}

\* streams that hold any line at any place
AnyLines(flt) == [faults |-> flt, lines |-> "any"]

\* streams of records of one sequence, each line right or wrong for its place
RecordLines(flt) == [faults |-> flt, lines |-> "records"]

\* the lines a stream can hold at the place pl
LinesAt(src, pl) ==
    IF src.lines = "any" THEN Lines
    ELSE CASE pl = "id" -> IdLines \cup {<<"+">>}
           [] pl = "seq" -> {<<"T", "A", "T">>, <<>>}
           [] pl = "plus" -> {<<"+">>, <<"T", "A", "T">>}
           [] pl = "qual" -> {<<"I", "I", "I">>, <<"I">>, <<>>}

\* the two files of a run, given line by line: the stream of the first parser
\* is r1, and r2 that of the second if the run is paired
Files(f1, f2, pair) == [faults |-> FALSE, lines |-> "files", r1 |-> f1, r2 |-> f2, paired |-> pair]

\* the stream the second parser reads
Mate(src) == IF src.lines = "files" THEN [src EXCEPT !.r1 = src.r2] ELSE src

\* a reader that has delivered n lines
NewReader == [n |-> 0, eof |-> FALSE, stuck |-> FALSE]

\* self.reader.read_line(&mut self.buffer) for the line at the place pl: what
\* it can return, and the reader after
read_line(rd, pl, src) ==
    IF rd.stuck THEN {[kind |-> "Err", line |-> <<>>, rd |-> rd]}
    ELSE IF rd.eof THEN {[kind |-> "Ok0", line |-> <<>>, rd |-> rd]}
    ELSE IF src.lines = "files" THEN
        IF rd.n < Len(src.r1)
        THEN {[kind |-> "Ok", line |-> src.r1[rd.n + 1], rd |-> [rd EXCEPT !.n = @ + 1]]}
        ELSE {[kind |-> "Ok0", line |-> <<>>, rd |-> [rd EXCEPT !.eof = TRUE]]}
    ELSE {[kind |-> "Ok0", line |-> <<>>, rd |-> [rd EXCEPT !.eof = TRUE]]}
         \cup (IF rd.n < MaxLines
               THEN {[kind |-> "Ok", line |-> l, rd |-> [rd EXCEPT !.n = @ + 1]]
                     : l \in LinesAt(src, pl)}
               ELSE {})
         \cup (IF src.faults /\ rd.n < MaxLines
               THEN {[kind |-> "Err", line |-> <<>>, rd |-> [rd EXCEPT !.n = @ + 1]]}
               ELSE {})
         \cup (IF src.faults
               THEN {[kind |-> "Err", line |-> <<>>, rd |-> [rd EXCEPT !.stuck = TRUE]]}
               ELSE {})

-----------------------------------------------------------------------------
(* FastqParser::next_record *)

IsSpace(c) == c \in {" ", "\t", "\r", "\n"}

starts_with(line, c) == Len(line) > 0 /\ line[1] = c

\* str::trim
RECURSIVE trim_start(_)
trim_start(line) ==
    IF line # <<>> /\ IsSpace(Head(line)) THEN trim_start(Tail(line)) ELSE line

trim(line) == Reverse(trim_start(Reverse(trim_start(line))))

\* the characters of line before its first white space
RECURSIVE UpToSpace(_)
UpToSpace(line) ==
    IF line = <<>> \/ IsSpace(Head(line)) THEN <<>>
    ELSE <<Head(line)>> \o UpToSpace(Tail(line))

\* s.split_whitespace().next().unwrap_or(dflt)
first_token(line, dflt) ==
    IF trim_start(line) = <<>> THEN dflt ELSE UpToSpace(trim_start(line))

\* FastqRecord::new, and a record after its three clear()
EmptyRecord == [id |-> <<>>, seq |-> <<>>, qual |-> <<>>]

\* Result<bool>: Ok(b), and Err with the place that raised it
Ok(b) == [tag |-> "Ok", val |-> b]

Err(what) == [tag |-> "Err", what |-> what]

\* the errors raised at the end of the stream
Truncations == {"seq_eof", "plus_eof", "qual_eof"}

\* the errors raised by a line that breaks the format
FormatErrors == {"id_marker", "seq_empty", "plus_marker", "qual_empty", "length"}

\* the errors raised by a failing read_line
IoErrors == {"id_io", "seq_io", "plus_io", "qual_io"}

Outcome(res, rec, rd, first) == [res |-> res, rec |-> rec, rd |-> rd, first |-> first]

\* the quality line, the lengths not compared
ReadQual_nolength(rec, rd, src) ==
    {IF o.kind = "Ok0" THEN Outcome(Err("qual_eof"), rec, o.rd, "Ok")
     ELSE IF o.kind = "Err" THEN Outcome(Err("qual_io"), rec, o.rd, "Ok")
     ELSE IF trim(o.line) = <<>> THEN Outcome(Err("qual_empty"), rec, o.rd, "Ok")
     ELSE Outcome(Ok(TRUE), [rec EXCEPT !.qual = trim(o.line)], o.rd, "Ok")
     : o \in read_line(rd, "qual", src)}

\* the quality line and the comparison of the lengths
ReadQual(rec, rd, src) ==
    {IF o.kind = "Ok0" THEN Outcome(Err("qual_eof"), rec, o.rd, "Ok")
     ELSE IF o.kind = "Err" THEN Outcome(Err("qual_io"), rec, o.rd, "Ok")
     ELSE IF trim(o.line) = <<>> THEN Outcome(Err("qual_empty"), rec, o.rd, "Ok")
     ELSE LET full == [rec EXCEPT !.qual = trim(o.line)] IN
          IF Len(full.seq) # Len(full.qual)
          THEN Outcome(Err("length"), full, o.rd, "Ok")
          ELSE Outcome(Ok(TRUE), full, o.rd, "Ok")
     : o \in read_line(rd, "qual", src)}

\* the + line, the end of the stream reported as a line without the + marker
ReadPlus_conflated(rec, rd, src) ==
    UNION {IF o.kind = "Ok0" THEN {Outcome(Err("plus_marker"), rec, o.rd, "Ok")}
           ELSE IF o.kind = "Err" THEN {Outcome(Err("plus_io"), rec, o.rd, "Ok")}
           ELSE IF ~starts_with(o.line, "+") THEN {Outcome(Err("plus_marker"), rec, o.rd, "Ok")}
           ELSE ReadQual(rec, o.rd, src)
           : o \in read_line(rd, "plus", src)}

\* the + line
ReadPlus(rec, rd, src) ==
    UNION {IF o.kind = "Ok0" THEN {Outcome(Err("plus_eof"), rec, o.rd, "Ok")}
           ELSE IF o.kind = "Err" THEN {Outcome(Err("plus_io"), rec, o.rd, "Ok")}
           ELSE IF ~starts_with(o.line, "+") THEN {Outcome(Err("plus_marker"), rec, o.rd, "Ok")}
           ELSE ReadQual(rec, o.rd, src)
           : o \in read_line(rd, "plus", src)}

\* the sequence line
ReadSeq(rec, rd, src) ==
    UNION {IF o.kind = "Ok0" THEN {Outcome(Err("seq_eof"), rec, o.rd, "Ok")}
           ELSE IF o.kind = "Err" THEN {Outcome(Err("seq_io"), rec, o.rd, "Ok")}
           ELSE IF trim(o.line) = <<>> THEN {Outcome(Err("seq_empty"), rec, o.rd, "Ok")}
           ELSE ReadPlus([rec EXCEPT !.seq = trim(o.line)], o.rd, src)
           : o \in read_line(rd, "seq", src)}

\* next_record returning an error when the stream ends before an ID line
next_record_noeof(rd, src) ==
    UNION {IF o.kind = "Ok0" THEN {Outcome(Err("seq_eof"), EmptyRecord, o.rd, o.kind)}
           ELSE IF o.kind = "Err" THEN {Outcome(Err("id_io"), EmptyRecord, o.rd, o.kind)}
           ELSE IF ~starts_with(o.line, "@")
                THEN {Outcome(Err("id_marker"), EmptyRecord, o.rd, o.kind)}
           ELSE ReadSeq([EmptyRecord EXCEPT !.id = first_token(Tail(o.line), <<>>)], o.rd, src)
           : o \in read_line(rd, "id", src)}

\* next_record: the outcomes of a call on the reader rd, each with the
\* result, the record as the call leaves it, the reader after the call and
\* what the first read_line returned
next_record(rd, src) ==
    UNION {IF o.kind = "Ok0" THEN {Outcome(Ok(FALSE), EmptyRecord, o.rd, o.kind)}
           ELSE IF o.kind = "Err" THEN {Outcome(Err("id_io"), EmptyRecord, o.rd, o.kind)}
           ELSE IF ~starts_with(o.line, "@")
                THEN {Outcome(Err("id_marker"), EmptyRecord, o.rd, o.kind)}
           ELSE ReadSeq([EmptyRecord EXCEPT !.id = first_token(Tail(o.line), <<>>)], o.rd, src)
           : o \in read_line(rd, "id", src)}

\* the streams of the model
Sources == <<AnyLines(FALSE), AnyLines(TRUE), RecordLines(FALSE), RecordLines(TRUE)>>

Flag(b) == IF b THEN 1 ELSE 0

ReaderKey(n, eof, stuck, i) ==
    ((n * 2 + Flag(eof)) * 2 + Flag(stuck)) * Len(Sources) + (i - 1)

SourceIndex(src) == CHOOSE i \in 1..Len(Sources) : Sources[i] = src

\* next_record on the readers and streams of the model, computed once and
\* kept under the number of the reader's state and of the stream
NextRecordCache ==
    [x \in 0..(ReaderKey(MaxLines + 1, FALSE, FALSE, 1) - 1) |->
        next_record([n |-> x \div (4 * Len(Sources)),
                     eof |-> ((x \div (2 * Len(Sources))) % 2) = 1,
                     stuck |-> ((x \div Len(Sources)) % 2) = 1],
                    Sources[(x % Len(Sources)) + 1])]

NextRecordOf(rd, src) ==
    IF src.lines = "files" THEN next_record(rd, src)
    ELSE NextRecordCache[ReaderKey(rd.n, rd.eof, rd.stuck, SourceIndex(src))]

\* the variables of the readers and of the calls, in a specification that
\* does not use them
ReadersIdle == source = AnyLines(FALSE) /\ parser1 = NewReader /\ parser2 = None

CallsIdle ==
    /\ nr_result = None
    /\ nr_record = EmptyRecord
    /\ nr_first = None
    /\ nr_prev = None
    /\ nr_calls = 0

-----------------------------------------------------------------------------
(* get_sequence_id and merge_paired_reads *)

ends_with(s, suf) ==
    Len(s) >= Len(suf) /\ SubSeq(s, Len(s) - Len(suf) + 1, Len(s)) = suf

\* str::trim_end_matches with a non-empty pattern: the pattern is removed
\* from the end as often as it is there
RECURSIVE trim_end_matches(_, _)
trim_end_matches(s, suf) ==
    IF ends_with(s, suf)
    THEN trim_end_matches(SubSeq(s, 1, Len(s) - Len(suf)), suf)
    ELSE s

get_sequence_id(full_id) ==
    trim_end_matches(trim_end_matches(first_token(full_id, full_id), <<"/", "1">>),
                     <<"/", "2">>)

\* usize::to_string
DigitChars == <<"0", "1", "2", "3", "4", "5", "6", "7", "8", "9">>

RECURSIVE to_string(_)
to_string(n) ==
    IF n < 10 THEN <<DigitChars[n + 1]>>
    ELSE to_string(n \div 10) \o <<DigitChars[(n % 10) + 1]>>

\* the byte of a quality character
Byte(c) ==
    CASE c = "I" -> 73
      [] c = "A" -> 65
      [] c = "5" -> 53
      [] c = "#" -> 35
      [] OTHER -> 0

\* an f64 rate as the fraction num / den, den > 0
Rate(num, den) == [num |-> num, den |-> den]

\* the positions at which two byte strings of one length differ
Mismatches(a, b) == Cardinality({i \in 1..Len(a) : a[i] # b[i]})

\* mismatches as f64 / overlap_len as f64 <= max_mismatch_rate; 0 / 0 is NaN,
\* which no comparison holds for
RateAtMost(mismatches, overlap_len, rate) ==
    overlap_len > 0 /\ mismatches * rate.den <= rate.num * overlap_len

merged_overlap_text == <<"_", "m", "e", "r", "g", "e", "d", "_", "o", "v", "e", "r", "l", "a", "p", "_">>

merged_concat_text == <<"_", "m", "e", "r", "g", "e", "d", "_", "c", "o", "n", "c", "a", "t">>

\* the overlap lengths the loop accepts
Fits(r1_seq, r2_rc, min_ov, rate) ==
    {ov \in min_ov..Min(Len(r1_seq), Len(r2_rc)) :
        RateAtMost(Mismatches(SubSeq(r1_seq, Len(r1_seq) - ov + 1, Len(r1_seq)),
                              SubSeq(r2_rc, 1, ov)),
                   ov, rate)}

\* the loop keeping the shortest accepted overlap
best_overlap_shortest(r1_seq, r2_rc, min_ov, rate) ==
    IF Fits(r1_seq, r2_rc, min_ov, rate) # {}
    THEN Some(SetMin(Fits(r1_seq, r2_rc, min_ov, rate)))
    ELSE None

\* the loop over the overlap lengths, from the longest down to min_overlap,
\* stopping at the first accepted: Some(best_overlap_len) if found_overlap
best_overlap(r1_seq, r2_rc, min_ov, rate) ==
    IF Fits(r1_seq, r2_rc, min_ov, rate) # {}
    THEN Some(SetMax(Fits(r1_seq, r2_rc, min_ov, rate)))
    ELSE None

\* the overlap region with the base of r2 on a tie
Consensus_r2ties(seq1, qual1, seq2, qual2) ==
    [seq |-> [i \in 1..Len(seq1) |-> IF Byte(qual1[i]) > Byte(qual2[i]) THEN seq1[i] ELSE seq2[i]],
     qual |-> [i \in 1..Len(seq1) |-> IF Byte(qual1[i]) > Byte(qual2[i]) THEN qual1[i] ELSE qual2[i]]]

\* the overlap region: at each place the base and quality of the higher
\* quality, those of r1 on a tie
Consensus(seq1, qual1, seq2, qual2) ==
    [seq |-> [i \in 1..Len(seq1) |-> IF Byte(qual1[i]) >= Byte(qual2[i]) THEN seq1[i] ELSE seq2[i]],
     qual |-> [i \in 1..Len(seq1) |-> IF Byte(qual1[i]) >= Byte(qual2[i]) THEN qual1[i] ELSE qual2[i]]]

\* the merge on an overlap that keeps the overlapping bases of r2_rc
Overlapped_keep(r1, r2_rc, r2_rc_qual, len, mid) ==
    [id |-> get_sequence_id(r1.id) \o merged_overlap_text \o to_string(len),
     seq |-> SubSeq(r1.seq, 1, Len(r1.seq) - len) \o mid.seq \o r2_rc,
     qual |-> SubSeq(r1.qual, 1, Len(r1.qual) - len) \o mid.qual \o r2_rc_qual]

\* the merge on an overlap of len bases
Overlapped(r1, r2_rc, r2_rc_qual, len, mid) ==
    [id |-> get_sequence_id(r1.id) \o merged_overlap_text \o to_string(len),
     seq |-> SubSeq(r1.seq, 1, Len(r1.seq) - len) \o mid.seq
             \o SubSeq(r2_rc, len + 1, Len(r2_rc)),
     qual |-> SubSeq(r1.qual, 1, Len(r1.qual) - len) \o mid.qual
              \o SubSeq(r2_rc_qual, len + 1, Len(r2_rc_qual))]

\* the merge without an overlap that drops the first base of r2_rc
Concatenated_trimmed(r1, r2_rc, r2_rc_qual) ==
    [id |-> get_sequence_id(r1.id) \o merged_concat_text,
     seq |-> r1.seq \o Tail(r2_rc),
     qual |-> r1.qual \o Tail(r2_rc_qual)]

\* the merge without an overlap
Concatenated(r1, r2_rc, r2_rc_qual) ==
    [id |-> get_sequence_id(r1.id) \o merged_concat_text,
     seq |-> r1.seq \o r2_rc,
     qual |-> r1.qual \o r2_rc_qual]

Joined(r1, r2_rc, r2_rc_qual, best) ==
    IF IsSome(best)
    THEN Overlapped(r1, r2_rc, r2_rc_qual, best[1],
                    Consensus(SubSeq(r1.seq, Len(r1.seq) - best[1] + 1, Len(r1.seq)),
                              SubSeq(r1.qual, Len(r1.qual) - best[1] + 1, Len(r1.qual)),
                              SubSeq(r2_rc, 1, best[1]),
                              SubSeq(r2_rc_qual, 1, best[1])))
    ELSE Concatenated(r1, r2_rc, r2_rc_qual)

\* the check of the merged record
Validated(m) ==
    IF m.seq = <<>> \/ m.qual = <<>> \/ Len(m.seq) # Len(m.qual) THEN None ELSE Some(m)

merge_paired_reads(r1, r2, min_ov, rate) ==
    IF r1.seq = <<>> \/ r2.seq = <<>> THEN None
    ELSE Validated(Joined(r1, revcomp(r2.seq), Reverse(r2.qual),
                          best_overlap(r1.seq, revcomp(r2.seq), min_ov, rate)))

\* PairedFastqRecord::new
PairedFastqRecord_new(r1) == [r1 |-> r1, merged |-> None]

\* the variables of merge_paired_reads, in a specification that does not
\* call it alone
MergeIdle ==
    record1 = EmptyRecord /\ record2 = EmptyRecord /\ merged = None /\ merge_done = FALSE

-----------------------------------------------------------------------------
(* load_primers *)

\* U+FEFF, the byte order mark trim_start_matches removes from a name
Bom == "BOM"

\* the bases a primer sequence may hold
PrimerBases == {"A", "T", "G", "C", "N"}

\* char::to_ascii_uppercase, on the characters of the catalogs
to_ascii_uppercase(c) ==
    CASE c = "a" -> "A"
      [] c = "c" -> "C"
      [] c = "g" -> "G"
      [] c = "t" -> "T"
      [] c = "n" -> "N"
      [] OTHER -> c

\* str::to_uppercase
to_uppercase(s) == [i \in 1..Len(s) |-> to_ascii_uppercase(s[i])]

\* the positions of the tabulators of a line
Tabs(line) == {i \in 1..Len(line) : line[i] = "\t"}

\* split('\t'): the first part, and the line after the first tabulator
BeforeTab(line) ==
    IF Tabs(line) = {} THEN line ELSE SubSeq(line, 1, SetMin(Tabs(line)) - 1)

AfterTab(line) == SubSeq(line, SetMin(Tabs(line)) + 1, Len(line))

\* parts[0].trim_start_matches('\u{feff}')
trim_start_matches_bom(s) ==
    SubSeq(s, SetMin({i \in 1..(Len(s) + 1) : i > Len(s) \/ s[i] # Bom}), Len(s))

\* parts[0] and parts[1] as load_primers takes them
PrimerName(line) == trim(trim_start_matches_bom(BeforeTab(line)))

PrimerSeq(line) == trim(BeforeTab(AfterTab(line)))

\* the test of a loader that keeps every row
ValidBases_any(seq) == \A i \in 1..Len(seq) : seq[i] \in STRING

\* seq.chars().all(|c| matches!(c.to_ascii_uppercase(), 'A' | 'T' | 'G' | 'C' | 'N'))
ValidBases(seq) == \A i \in 1..Len(seq) : to_ascii_uppercase(seq[i]) \in PrimerBases

\* HashMap::insert: a later entry of the same name replaces the earlier
Insert(table, name, entry) ==
    [n \in DOMAIN table \cup {name} |-> IF n = name THEN entry ELSE table[n]]

\* the body of the loop over the lines, on a line that was read
LoadLine(table, line) ==
    IF trim(line) = <<>> \/ Head(line) = "#" THEN table
    ELSE IF Tabs(line) = {} THEN table
    ELSE IF ~ValidBases(PrimerSeq(line)) THEN table
    ELSE Insert(table, PrimerName(line),
                <<to_uppercase(PrimerSeq(line)), revcomp(to_uppercase(PrimerSeq(line)))>>)

\* the loop over the lines: a line that cannot be read ends the call
RECURSIVE LoadLines(_, _)
LoadLines(table, lines) ==
    IF lines = <<>> THEN
        IF DOMAIN table = {} THEN Err("no_primers") ELSE Ok(table)
    ELSE IF ~Head(lines).ok THEN Err("io")
    ELSE LoadLines(LoadLine(table, Head(lines).text), Tail(lines))

load_primers(lines) == LoadLines(<<>>, lines)

\* the variables of load_primers, in a specification that does not call it
LoadIdle == primer_file = <<>> /\ loaded = None

\* the variables of main.rs's collector, in a specification that does not run it
CollectIdle == analyses = <<>> /\ collected = None

-----------------------------------------------------------------------------
(* AnalysisWriter *)

\* Statistics::default()
NewStatistics ==
    [total_reads |-> 0, both_primers_found |-> 0, plus_strand |-> 0, minus_strand |-> 0,
     dimer_count |-> 0, primer_pairs |-> <<>>]

\* AnalysisWriter::new, the header written; rows are the result rows after it
NewWriter(max_out) ==
    [count |-> 0, max_output |-> max_out, stats |-> NewStatistics, rows |-> <<>>,
     finished |-> FALSE]

\* an entry set to one at every call
Bump_set(map, key) == [k \in DOMAIN map \cup {key} |-> IF k = key THEN 1 ELSE map[k]]

\* *map.entry(key).or_insert(0) += 1
Bump(map, key) ==
    [k \in DOMAIN map \cup {key} |-> IF k = key
                                     THEN (IF key \in DOMAIN map THEN map[key] ELSE 0) + 1
                                     ELSE map[k]]

\* o.map_or("-".to_string(), |p| p.to_string())
map_or_dash(o) == IF IsSome(o) THEN to_string(o[1]) ELSE <<"-">>

\* the fields of the row writeln! formats
Row(a) ==
    <<a.read_id, to_string(a.length), a.strand, a.f_primer, a.r_primer,
      a.f_match.found, map_or_dash(a.f_match.position), map_or_dash(a.f_match.errors),
      a.r_match.found, map_or_dash(a.r_match.position), map_or_dash(a.r_match.errors),
      map_or_dash(a.distance), a.is_dimer>>

\* the statistics part of a process that counts a read without strand as plus
Count_plus(stats, a) ==
    [total_reads |-> stats.total_reads + 1,
     both_primers_found |-> stats.both_primers_found
                            + (IF a.f_match.found /\ a.r_match.found THEN 1 ELSE 0),
     plus_strand |-> stats.plus_strand + (IF a.strand # "-" THEN 1 ELSE 0),
     minus_strand |-> stats.minus_strand + (IF a.strand = "-" THEN 1 ELSE 0),
     dimer_count |-> stats.dimer_count + (IF a.is_dimer THEN 1 ELSE 0),
     primer_pairs |-> Bump(stats.primer_pairs, <<a.f_primer, a.r_primer>>)]

\* the statistics part of a process whose plus count depends on what came
\* before: a read of the plus strand counts the reads of the minus strand too
Count_order(stats, a) ==
    [total_reads |-> stats.total_reads + 1,
     both_primers_found |-> stats.both_primers_found
                            + (IF a.f_match.found /\ a.r_match.found THEN 1 ELSE 0),
     plus_strand |-> stats.plus_strand
                     + (IF a.strand = "+" THEN 1 + stats.minus_strand ELSE 0),
     minus_strand |-> stats.minus_strand + (IF a.strand = "-" THEN 1 ELSE 0),
     dimer_count |-> stats.dimer_count + (IF a.is_dimer THEN 1 ELSE 0),
     primer_pairs |-> Bump(stats.primer_pairs, <<a.f_primer, a.r_primer>>)]

\* the statistics part of process
Count(stats, a) ==
    [total_reads |-> stats.total_reads + 1,
     both_primers_found |-> stats.both_primers_found
                            + (IF a.f_match.found /\ a.r_match.found THEN 1 ELSE 0),
     plus_strand |-> stats.plus_strand + (IF a.strand = "+" THEN 1 ELSE 0),
     minus_strand |-> stats.minus_strand + (IF a.strand = "-" THEN 1 ELSE 0),
     dimer_count |-> stats.dimer_count + (IF a.is_dimer THEN 1 ELSE 0),
     primer_pairs |-> Bump(stats.primer_pairs, <<a.f_primer, a.r_primer>>)]

\* 1 for a ReadAnalysis the match on the strand (406-410) counts nowhere
NoStrand(a) == IF a.strand \in {"+", "-"} THEN 0 ELSE 1

\* the cap test without the test for no cap
at_cap_nozero(w) == w.count >= w.max_output

\* the cap test letting one row more through
at_cap_gt(w) == w.max_output > 0 /\ w.count > w.max_output

\* self.max_output > 0 && self.count >= self.max_output
at_cap(w) == w.max_output > 0 /\ w.count >= w.max_output

\* process: the writer after the call and what the call returns; write_ok is
\* whether writeln! succeeds, should the call come to it
process(w, a, write_ok) ==
    LET counted == [w EXCEPT !.stats = Count(w.stats, a)] IN
    IF at_cap(counted) THEN [writer |-> counted, res |-> "Ok"]
    ELSE IF ~write_ok THEN [writer |-> counted, res |-> "Err"]
    ELSE [writer |-> [counted EXCEPT !.rows = Append(@, Row(a)), !.count = @ + 1],
          res |-> "Ok"]

\* a percentage as the fraction it is computed from, 0.0 for no read
Percentage(count, total) == IF total > 0 THEN Rate(count * 100, total) ELSE Rate(0, 1)

\* get_statistics; the Vec of the pairs, in the order of the HashMap, as a set
get_statistics(w) ==
    [total_reads |-> w.stats.total_reads,
     both_primers_found |-> w.stats.both_primers_found,
     success_rate |-> Percentage(w.stats.both_primers_found, w.stats.total_reads),
     plus_strand |-> w.stats.plus_strand,
     minus_strand |-> w.stats.minus_strand,
     dimer_count |-> w.stats.dimer_count,
     dimer_rate |-> Percentage(w.stats.dimer_count, w.stats.total_reads),
     primer_pairs |-> {[forward_primer |-> k[1], reverse_primer |-> k[2],
                        count |-> w.stats.primer_pairs[k],
                        percentage |-> Percentage(w.stats.primer_pairs[k], w.stats.total_reads)]
                       : k \in DOMAIN w.stats.primer_pairs}]

\* finalize: try_finish on the result stream
finalize(w) == [w EXCEPT !.finished = TRUE]

\* the variables of the writer, in a specification that has none
SinkIdle ==
    writer = NewWriter(0) /\ consumed = <<>> /\ write_failed = FALSE /\ unknown_count = 0

\* the variables of process_reads, in a specification that does not run it
PipeIdle ==
    /\ pc = "idle"
    /\ min_overlap = 0
    /\ max_mismatch_rate = Rate(0, 1)
    /\ record_count = 0
    /\ current_batch = <<>>
    /\ batch = <<>>
    /\ todo = {}
    /\ tx = FALSE
    /\ channel = <<>>
    /\ wpc = "idle"
    /\ statistics = None
    /\ io_failed = FALSE
    /\ called_after_io = FALSE
    /\ truncated = FALSE

-----------------------------------------------------------------------------
(* The classification of one read: the inputs are drawn in the initial      *)
(* state, Classify applies analyze_read.                                    *)

\* a record as next_record yields it: a non-empty sequence, a quality of the
\* same length
RecordOf(id, seq) == [id |-> id, seq |-> seq, qual |-> [i \in 1..Len(seq) |-> "I"]]

\* the variables of analyze_read, in a specification that does not call it alone
ClassifyIdle ==
    /\ record = EmptyRecord
    /\ primers = <<>>
    /\ max_errors = 0
    /\ min_distance = 0
    /\ analysis = None
    /\ called = FALSE

Tables == UNION {[S -> {PrimerEntry(p) : p \in PrimerSeqs}] : S \in SUBSET Names \ {{}}}

\* a read of 58 bases: the forward primer F, 42 bases b, the reverse complement of R
ScenarioRead(b) ==
    <<"A", "C", "G", "T", "A", "C", "G", "T">> \o [i \in 1..42 |-> b]
        \o revcomp(<<"T", "T", "T", "T", "C", "C", "C", "C">>)

\* a table of two primers of eight bases
ScenarioTable ==
    [n \in {"F", "R"} |-> IF n = "F"
                          THEN PrimerEntry(<<"A", "C", "G", "T", "A", "C", "G", "T">>)
                          ELSE PrimerEntry(<<"T", "T", "T", "T", "C", "C", "C", "C">>)]

\* the short reads and tables, with every parameter
ClassifyInputs ==
    /\ record \in {RecordOf("r", s) : s \in ReadSeqs}
    /\ primers \in Tables
    /\ max_errors \in -1..MaxErrors
    /\ min_distance \in 0..MaxMinDistance

\* an amplicon of 58 bases between two primers of eight
ScenarioInputs ==
    /\ record \in {RecordOf("r", ScenarioRead(b)) : b \in {"A", "C", "G", "T"}}
    /\ primers = ScenarioTable
    /\ max_errors = 3
    /\ min_distance = 100

ClassifyInit ==
    /\ ClassifyInputs \/ ScenarioInputs
    /\ analysis = None
    /\ called = FALSE
    /\ ReadersIdle
    /\ CallsIdle
    /\ SinkIdle
    /\ PipeIdle
    /\ MergeIdle
    /\ LoadIdle
    /\ CollectIdle

\* the sorted vectors the iteration orders of the HashMap can give
SortedPairs(tbl) == {primer_pairs(o) : o \in Orders(DOMAIN tbl)}

Classify ==
    /\ ~called
    /\ \E sorted \in SortedPairs(primers) :
          analysis' = analyze_read(record, primers, sorted, max_errors, min_distance)
    /\ called' = TRUE
    /\ UNCHANGED <<record, primers, max_errors, min_distance, readerVars, callVars,
                   sinkVars, pipeVars, mergeVars, loadVars, collectVars>>

ClassifyNext == Classify

SpecClassify == ClassifyInit /\ [][ClassifyNext]_vars

\* main.rs: get_best_primer_pair takes the pairs from
\* primers.iter().tuple_combinations(), the entries in the order of the
\* HashMap and every entry paired with the entries after it; the checks of a
\* pair and the replacement of the best result are those of the loops above
get_best_primer_pair(rec, tbl, order, max_err) == BestResult(rec, tbl, order, max_err)

\* main.rs: analyze_read, the HashMap iterated in the order given
analyze_read_unsorted(rec, tbl, order, max_err, min_dist) ==
    CHOOSE analysis_ \in {Classified(rec, best_match, min_dist) :
                             best_match \in {get_best_primer_pair(rec, tbl, order, max_err)}}
        : TRUE

\* a call of analyze_read of main.rs, on the inputs of ClassifyInit
ClassifyUnsorted ==
    /\ ~called
    /\ \E order \in Orders(DOMAIN primers) :
          analysis' = analyze_read_unsorted(record, primers, order, max_errors, min_distance)
    /\ called' = TRUE
    /\ UNCHANGED <<record, primers, max_errors, min_distance, readerVars, callVars,
                   sinkVars, pipeVars, mergeVars, loadVars, collectVars>>

SpecClassifyUnsorted == ClassifyInit /\ [][ClassifyUnsorted]_vars

-----------------------------------------------------------------------------
(* One FastqParser driven alone: next_record called again and again on one  *)
(* reader, whatever it returned.                                            *)

ParserInit ==
    /\ source \in {AnyLines(flt) : flt \in BOOLEAN}
    /\ parser1 = NewReader
    /\ parser2 = None
    /\ CallsIdle
    /\ ClassifyIdle
    /\ SinkIdle
    /\ PipeIdle
    /\ MergeIdle
    /\ LoadIdle
    /\ CollectIdle

NextRecord ==
    /\ nr_calls < MaxCalls
    /\ \E o \in NextRecordOf(parser1, source) :
          /\ parser1' = o.rd
          /\ nr_result' = Some(o.res)
          /\ nr_record' = o.rec
          /\ nr_first' = Some(o.first)
          /\ nr_prev' = nr_result
    /\ nr_calls' = nr_calls + 1
    /\ UNCHANGED <<source, parser2, classifyVars, sinkVars, pipeVars, mergeVars, loadVars, collectVars>>

ParserNext == NextRecord

SpecParser == ParserInit /\ [][ParserNext]_vars

-----------------------------------------------------------------------------
(* merge_paired_reads called alone: the two records are as next_record      *)
(* yields them, a sequence that is not empty and a quality of its length;   *)
(* Merge applies merge_paired_reads.                                        *)

\* the quality characters of the records: a high and a low quality, the low
\* one a character that is a base too
MateQuals == {"I", "A"}

\* the records merge_paired_reads is called on
MateRecords ==
    UNION {{[id |-> <<"a">>, seq |-> sq, qual |-> ql] :
               sq \in [1..k -> ReadBases], ql \in [1..k -> MateQuals]} : k \in 1..MaxMateLen}

\* the values of max_mismatch_rate: the default 0.1, and 0.5
MergeRates == {Rate(1, 10), Rate(1, 2)}

MergeInit ==
    /\ record1 \in MateRecords
    /\ record2 \in MateRecords
    /\ min_overlap \in 0..MaxMinOverlap
    /\ max_mismatch_rate \in MergeRates
    /\ merged = None
    /\ merge_done = FALSE
    /\ pc = "idle"
    /\ record_count = 0
    /\ current_batch = <<>>
    /\ batch = <<>>
    /\ todo = {}
    /\ tx = FALSE
    /\ channel = <<>>
    /\ wpc = "idle"
    /\ statistics = None
    /\ io_failed = FALSE
    /\ called_after_io = FALSE
    /\ truncated = FALSE
    /\ ClassifyIdle
    /\ ReadersIdle
    /\ CallsIdle
    /\ SinkIdle
    /\ LoadIdle
    /\ CollectIdle

Merge ==
    /\ ~merge_done
    /\ merged' = merge_paired_reads(record1, record2, min_overlap, max_mismatch_rate)
    /\ merge_done' = TRUE
    /\ UNCHANGED <<record1, record2, classifyVars, readerVars, callVars, sinkVars, pipeVars,
                   loadVars, collectVars>>

SpecMerge == MergeInit /\ [][Merge]_vars

-----------------------------------------------------------------------------
(* load_primers called alone, on the catalogs of the model. *)

\* the lines of a catalog: rows, a row in lower case, a row under the name of
\* another behind a byte order mark, a row of an empty sequence, a row with a
\* character that is no base, a comment, a blank line and a line of one part
CatalogTexts ==
    { <<"F", "\t", "A", "C">>,
      <<"R", "\t", "g", "t">>,
      <<"BOM", "F", "\t", "G", " ">>,
      <<"E", "\t">>,
      <<"S", "\t", "A", "C", "G", "T", "X">>,
      <<"#", "c">>,
      <<" ">>,
      <<"F", "A", "C">> }

\* what lines() yields: a line, or the error of a line that cannot be read
CatalogLines == {[ok |-> TRUE, text |-> t] : t \in CatalogTexts} \cup {[ok |-> FALSE, text |-> <<>>]}

\* a catalog of one row, of any sequence of bases
RowOf(sq) == [ok |-> TRUE, text |-> <<"P", "\t">> \o sq]

Catalogs ==
    UNION {[1..k -> CatalogLines] : k \in 0..MaxCatalogLines}
        \cup {<<RowOf(sq)>> : sq \in SeqsUpTo(PrimerBases, MaxPrimerLen)}

LoadInit ==
    /\ primer_file \in Catalogs
    /\ loaded = None
    /\ ClassifyIdle
    /\ ReadersIdle
    /\ CallsIdle
    /\ SinkIdle
    /\ PipeIdle
    /\ MergeIdle
    /\ CollectIdle

Load ==
    /\ loaded = None
    /\ loaded' = Some(load_primers(primer_file))
    /\ UNCHANGED <<primer_file, classifyVars, readerVars, callVars, sinkVars, pipeVars,
                   mergeVars, collectVars>>

SpecLoad == LoadInit /\ [][Load]_vars

-----------------------------------------------------------------------------
(* The parameters of the runs of the writer and of process_reads. *)

RunPrimers == [n \in {"F", "R"} |-> IF n = "F" THEN PrimerEntry(<<"T", "A">>)
                                               ELSE PrimerEntry(<<"A", "T">>)]

RunMaxErrors == 0

RunMinDistance == 2

RunMinOverlap == 2

RunMismatchRate == Rate(1, 10)

\* the max_output of a run with a cap; the other runs have none
RunMaxOutput == 1

\* analyze_read on a record of the run
Analyze(rec, min_dist) ==
    {analyze_read(rec, RunPrimers, sorted, RunMaxErrors, min_dist) :
        sorted \in SortedPairs(RunPrimers)}

-----------------------------------------------------------------------------
(* One AnalysisWriter driven alone: process called again and again, on any  *)
(* ReadAnalysis, its writes succeeding or failing.                          *)

\* the values process is called on: a read on the plus strand, as a dimer and
\* not, one on the minus strand, one without primers
SinkAnalyses ==
    {a[1] : a \in UNION {Analyze(RecordOf(<<"a">>, sq), md) :
                            sq \in {<<"T", "A", "T">>, <<"A", "T", "A">>, <<"A">>},
                            md \in {1, 2}}}

SinkInit ==
    /\ writer \in {NewWriter(m) : m \in 0..MaxOutput}
    /\ consumed = <<>>
    /\ write_failed = FALSE
    /\ unknown_count = 0
    /\ ClassifyIdle
    /\ ReadersIdle
    /\ CallsIdle
    /\ PipeIdle
    /\ MergeIdle
    /\ LoadIdle
    /\ CollectIdle

Process ==
    /\ Len(consumed) < MaxProcess
    /\ \E a \in SinkAnalyses, write_ok \in BOOLEAN :
          LET r == process(writer, a, write_ok) IN
          /\ writer' = r.writer
          /\ write_failed' = (write_failed \/ r.res = "Err")
          /\ unknown_count' = unknown_count + NoStrand(a)
    /\ consumed' = Append(consumed, Len(consumed) + 1)
    /\ UNCHANGED <<classifyVars, readerVars, callVars, pipeVars, mergeVars, loadVars, collectVars>>

SinkNext == Process

SpecSink == SinkInit /\ [][SinkNext]_vars

-----------------------------------------------------------------------------
(* main.rs: the analyses process_reads_parallel gathers, batch after batch, *)
(* and the statistics collect_statistics computes from them.                *)

\* the f64 0.0 / 0.0
NaN == Rate(0, 0)

\* (count as f64 / total as f64) * 100.0, of counts that are at most total
Percentage_unguarded(count, total) ==
    IF total = 0 /\ count = 0 THEN NaN ELSE Rate(count * 100, total)

\* a == b of two f64, which holds for no NaN
RateEq(a, b) == a.den > 0 /\ b.den > 0 /\ a.num * b.den = b.num * a.den

\* the values of a Vec
Image(all) == {all[i] : i \in 1..Len(all)}

\* analyses.iter().filter(pred).count(), pred given as the set of the values it holds for
CountOf(all, holds) == Cardinality({i \in 1..Len(all) : all[i] \in holds})

\* collect_statistics; the Vec of the pairs, sorted by their counts, as a set
collect_statistics(all) ==
    LET total == Len(all)
        both_found == CountOf(all, {a \in Image(all) : a.f_match.found /\ a.r_match.found})
        dimer_count == CountOf(all, {a \in Image(all) : a.is_dimer})
        pairs == {<<a.f_primer, a.r_primer>> : a \in Image(all)}
    IN
    [total_reads |-> total,
     both_primers_found |-> both_found,
     success_rate |-> Percentage_unguarded(both_found, total),
     plus_strand |-> CountOf(all, {a \in Image(all) : a.strand = "+"}),
     minus_strand |-> CountOf(all, {a \in Image(all) : a.strand = "-"}),
     dimer_count |-> dimer_count,
     dimer_rate |-> Percentage_unguarded(dimer_count, total),
     primer_pairs |-> {[forward_primer |-> k[1], reverse_primer |-> k[2],
                        count |-> CountOf(all, {a \in Image(all) :
                                                   <<a.f_primer, a.r_primer>> = k}),
                        percentage |-> Percentage_unguarded(
                                           CountOf(all, {a \in Image(all) :
                                                            <<a.f_primer, a.r_primer>> = k}),
                                           total)]
                       : k \in pairs}]

\* the reads of the input of main.rs
CollectReads == {<<"T", "A", "T">>, <<"A", "T", "A">>, <<"A">>}

CollectInit ==
    /\ analyses = <<>>
    /\ collected = None
    /\ ClassifyIdle
    /\ ReadersIdle
    /\ CallsIdle
    /\ SinkIdle
    /\ PipeIdle
    /\ MergeIdle
    /\ LoadIdle

\* process_reads_parallel: a batch of one read, classified, is added to all_analyses
ExtendAnalyses ==
    /\ collected = None
    /\ Len(analyses) < MaxAnalyses
    /\ \E sq \in CollectReads, order \in Orders(DOMAIN RunPrimers), md \in {1, 2} :
          \E a \in {analyze_read_unsorted(RecordOf(<<"a">>, sq), RunPrimers, order,
                                          RunMaxErrors, md)} :
              analyses' = analyses \o a
    /\ UNCHANGED <<collected, classifyVars, readerVars, callVars, sinkVars, pipeVars,
                   mergeVars, loadVars>>

\* process_reads_parallel has returned; main calls collect_statistics
CollectStatistics ==
    /\ collected = None
    /\ collected' = Some(collect_statistics(analyses))
    /\ UNCHANGED <<analyses, classifyVars, readerVars, callVars, sinkVars, pipeVars,
                   mergeVars, loadVars>>

CollectNext == ExtendAnalyses \/ CollectStatistics

SpecCollect == CollectInit /\ [][CollectNext]_vars

-----------------------------------------------------------------------------
(* main.rs: process_reads_parallel, read by read.  The reader is a           *)
(* bio::io::fastq::Reader; what it delivers is a sequence of outcomes of     *)
(* read, a record or an error each, and after the last an empty record.      *)

\* the outcomes of read: two records and an error
ReadOutcomes ==
    { [kind |-> "rec", rec |-> RecordOf(<<"a">>, <<"T", "A", "T">>)],
      [kind |-> "rec", rec |-> RecordOf(<<"b">>, <<"A", "T", "A">>)],
      [kind |-> "err", rec |-> EmptyRecord] }

BatchInit ==
    /\ source \in UNION {[1..k -> ReadOutcomes] : k \in 0..MaxAnalyses}
    /\ parser1 = NewReader
    /\ parser2 = None
    /\ pc = "read"
    /\ record_count = 0
    /\ current_batch = <<>>
    /\ analyses = <<>>
    /\ collected = None
    /\ min_overlap = 0
    /\ max_mismatch_rate = Rate(0, 1)
    /\ batch = <<>>
    /\ todo = {}
    /\ tx = FALSE
    /\ channel = <<>>
    /\ wpc = "idle"
    /\ statistics = None
    /\ io_failed = FALSE
    /\ called_after_io = FALSE
    /\ truncated = FALSE
    /\ ClassifyIdle
    /\ CallsIdle
    /\ SinkIdle
    /\ MergeIdle
    /\ LoadIdle

\* what process_reads_parallel leaves alone
BatchFrame ==
    UNCHANGED <<source, parser2, collected, classifyVars, callVars, sinkVars, min_overlap,
                max_mismatch_rate, batch, todo, tx, channel, wpc, statistics, io_failed,
                called_after_io, truncated, mergeVars, loadVars>>

\* the inner loop is left: the outer loop ends on an empty batch
AfterBreak == IF current_batch = <<>> THEN "done" ELSE "process"

\* Ok(()) with a record: it is pushed, and a full batch ends the inner loop
ReadRecord ==
    /\ pc = "read"
    /\ parser1.n < Len(source)
    /\ source[parser1.n + 1].kind = "rec"
    /\ parser1' = [parser1 EXCEPT !.n = @ + 1]
    /\ current_batch' = Append(current_batch, source[parser1.n + 1].rec)
    /\ record_count' = record_count + 1
    /\ pc' = IF Len(current_batch) + 1 >= BatchSize THEN "process" ELSE "read"
    /\ UNCHANGED analyses
    /\ BatchFrame

\* Ok(()) with an empty record, the end of the file: break
ReadEmpty ==
    /\ pc = "read"
    /\ parser1.n >= Len(source)
    /\ pc' = AfterBreak
    /\ UNCHANGED <<parser1, current_batch, record_count, analyses>>
    /\ BatchFrame

\* Err(e): the error is printed, break
ReadFailed ==
    /\ pc = "read"
    /\ parser1.n < Len(source)
    /\ source[parser1.n + 1].kind = "err"
    /\ parser1' = [parser1 EXCEPT !.n = @ + 1]
    /\ pc' = AfterBreak
    /\ UNCHANGED <<current_batch, record_count, analyses>>
    /\ BatchFrame

\* the batch is classified, in its order, and added to all_analyses; the
\* loop starts again with records.clear()
AnalyzeBatch ==
    /\ pc = "process"
    /\ \E order \in Orders(DOMAIN RunPrimers) :
          analyses' = analyses \o
              [i \in 1..Len(current_batch) |->
                  analyze_read_unsorted(current_batch[i], RunPrimers, order, RunMaxErrors,
                                        RunMinDistance)[1]]
    /\ current_batch' = <<>>
    /\ pc' = "read"
    /\ UNCHANGED <<parser1, record_count>>
    /\ BatchFrame

BatchNext == ReadRecord \/ ReadEmpty \/ ReadFailed \/ AnalyzeBatch

SpecBatch == BatchInit /\ [][BatchNext]_vars

-----------------------------------------------------------------------------
(* process_reads.  The main thread reads records and fills the batch, hands *)
(* a full batch to the workers of par_iter and waits for them; the workers  *)
(* classify the records of the batch, in any order, and send each result;   *)
(* the writer thread receives and calls process.  An iteration of the main  *)
(* loop touches nothing another thread sees, so it is one step.             *)

\* ReadBatch::is_full, for the batch size of the model
is_full(records) == Len(records) >= BatchSize

\* !current_batch.records.is_empty() said of no batch
last_batch_waits_never(records) == FALSE

\* !current_batch.records.is_empty()
last_batch_waits(records) == records # <<>>

\* writer_thread.join() returning without waiting
join_returns_now == TRUE

\* writer_thread.join() returns once the writer thread has returned
join_returns == wpc = "exited"

IsErr(res, kinds) == res.tag = "Err" /\ res.what \in kinds

\* the number of the i-th record of the batch in hand, among the records pushed
NumberOf(i) == record_count - Len(batch) + i

\* process_reads before the loop, but for the streams
Begin ==
    /\ parser1 = NewReader
    /\ primers = RunPrimers
    /\ max_errors = RunMaxErrors
    /\ min_distance = RunMinDistance
    /\ min_overlap = RunMinOverlap
    /\ max_mismatch_rate = RunMismatchRate
    /\ writer \in {NewWriter(0), NewWriter(RunMaxOutput)}
    /\ consumed = <<>>
    /\ write_failed = FALSE
    /\ unknown_count = 0
    /\ pc = "loop"
    /\ record_count = 0
    /\ current_batch = <<>>
    /\ batch = <<>>
    /\ todo = {}
    /\ tx = TRUE
    /\ channel = <<>>
    /\ wpc = "recv"
    /\ statistics = None
    /\ io_failed = FALSE
    /\ called_after_io = FALSE
    /\ truncated = FALSE
    /\ record = EmptyRecord
    /\ analysis = None
    /\ called = FALSE
    /\ CallsIdle
    /\ MergeIdle
    /\ LoadIdle
    /\ CollectIdle

Start(flt) ==
    /\ source = RecordLines(flt)
    /\ parser2 \in {None, Some(NewReader)}
    /\ Begin

Init == Start(TRUE)

\* what the main loop leaves alone
LoopFrame ==
    UNCHANGED <<source, classifyVars, callVars, sinkVars, min_overlap, max_mismatch_rate,
                tx, channel, wpc, statistics, mergeVars, loadVars, collectVars>>

\* a call of parser1.next_record is made, and returns res
Called1(res) ==
    /\ called_after_io' = (called_after_io \/ io_failed)
    /\ io_failed' = (io_failed \/ IsErr(res, IoErrors))
    /\ truncated' = (truncated \/ IsErr(res, Truncations))

\* calls of parser1.next_record and of parser2.next_record are made; the
\* first returned Ok(true), the second returns res
Called2(res) ==
    /\ called_after_io' = (called_after_io \/ io_failed)
    /\ io_failed' = (io_failed \/ IsErr(res, IoErrors))
    /\ truncated' = (truncated \/ IsErr(res, Truncations))

\* record_count += 1, the push, and process_batch begun if the batch is full
Push(paired_record) ==
    LET records == Append(current_batch, paired_record) IN
    /\ record_count' = record_count + 1
    /\ IF is_full(records)
       THEN /\ current_batch' = <<>>
            /\ batch' = records
            /\ todo' = 1..Len(records)
            /\ pc' = "batch"
       ELSE /\ current_batch' = records
            /\ pc' = "loop"
            /\ UNCHANGED <<batch, todo>>

\* Ok(true) without a second parser
ReadSingle ==
    /\ pc = "loop"
    /\ parser2 = None
    /\ \E o1 \in NextRecordOf(parser1, source) :
          /\ o1.res = Ok(TRUE)
          /\ parser1' = o1.rd
          /\ Called1(o1.res)
          /\ Push(PairedFastqRecord_new(o1.rec))
    /\ UNCHANGED parser2
    /\ LoopFrame

\* Ok(true) from both parsers, the identifiers agreeing
ReadPair ==
    /\ pc = "loop"
    /\ parser2 # None
    /\ \E o1 \in NextRecordOf(parser1, source) :
          /\ o1.res = Ok(TRUE)
          /\ \E o2 \in NextRecordOf(parser2[1], Mate(source)) :
                /\ o2.res = Ok(TRUE)
                /\ get_sequence_id(o1.rec.id) = get_sequence_id(o2.rec.id)
                /\ parser1' = o1.rd
                /\ parser2' = Some(o2.rd)
                /\ Called2(o2.res)
                /\ Push([PairedFastqRecord_new(o1.rec) EXCEPT
                            !.merged = merge_paired_reads(o1.rec, o2.rec, min_overlap,
                                                          max_mismatch_rate)])
    /\ LoopFrame

\* Ok(true) from both parsers, the identifiers differing, and the record
\* pushed all the same
SkipMismatch_pushed ==
    /\ pc = "loop"
    /\ parser2 # None
    /\ \E o1 \in NextRecordOf(parser1, source) :
          /\ o1.res = Ok(TRUE)
          /\ \E o2 \in NextRecordOf(parser2[1], Mate(source)) :
                /\ o2.res = Ok(TRUE)
                /\ get_sequence_id(o1.rec.id) # get_sequence_id(o2.rec.id)
                /\ parser1' = o1.rd
                /\ parser2' = Some(o2.rd)
                /\ Called2(o2.res)
                /\ Push(PairedFastqRecord_new(o1.rec))
    /\ LoopFrame

\* Ok(true) from both parsers, the identifiers differing: continue
SkipMismatch ==
    /\ pc = "loop"
    /\ parser2 # None
    /\ \E o1 \in NextRecordOf(parser1, source) :
          /\ o1.res = Ok(TRUE)
          /\ \E o2 \in NextRecordOf(parser2[1], Mate(source)) :
                /\ o2.res = Ok(TRUE)
                /\ get_sequence_id(o1.rec.id) # get_sequence_id(o2.rec.id)
                /\ parser1' = o1.rd
                /\ parser2' = Some(o2.rd)
                /\ Called2(o2.res)
    /\ UNCHANGED <<pc, record_count, current_batch, batch, todo>>
    /\ LoopFrame

\* Ok(false) from the second parser taken like an error: continue
Mate2End_continue ==
    /\ pc = "loop"
    /\ parser2 # None
    /\ \E o1 \in NextRecordOf(parser1, source) :
          /\ o1.res = Ok(TRUE)
          /\ \E o2 \in NextRecordOf(parser2[1], Mate(source)) :
                /\ o2.res = Ok(FALSE)
                /\ parser1' = o1.rd
                /\ parser2' = Some(o2.rd)
                /\ Called2(o2.res)
    /\ UNCHANGED <<pc, record_count, current_batch, batch, todo>>
    /\ LoopFrame

\* Ok(false) from the second parser: break
Mate2End ==
    /\ pc = "loop"
    /\ parser2 # None
    /\ \E o1 \in NextRecordOf(parser1, source) :
          /\ o1.res = Ok(TRUE)
          /\ \E o2 \in NextRecordOf(parser2[1], Mate(source)) :
                /\ o2.res = Ok(FALSE)
                /\ parser1' = o1.rd
                /\ parser2' = Some(o2.rd)
                /\ Called2(o2.res)
    /\ pc' = "last"
    /\ UNCHANGED <<record_count, current_batch, batch, todo>>
    /\ LoopFrame

\* Err(_) from the second parser: continue
Mate2Error ==
    /\ pc = "loop"
    /\ parser2 # None
    /\ \E o1 \in NextRecordOf(parser1, source) :
          /\ o1.res = Ok(TRUE)
          /\ \E o2 \in NextRecordOf(parser2[1], Mate(source)) :
                /\ o2.res.tag = "Err"
                /\ parser1' = o1.rd
                /\ parser2' = Some(o2.rd)
                /\ Called2(o2.res)
    /\ UNCHANGED <<pc, record_count, current_batch, batch, todo>>
    /\ LoopFrame

\* Ok(false) from the first parser: break
EndOfStream ==
    /\ pc = "loop"
    /\ \E o1 \in NextRecordOf(parser1, source) :
          /\ o1.res = Ok(FALSE)
          /\ parser1' = o1.rd
          /\ Called1(o1.res)
    /\ pc' = "last"
    /\ UNCHANGED <<parser2, record_count, current_batch, batch, todo>>
    /\ LoopFrame

\* Err(_) from the first parser: continue
SkipError ==
    /\ pc = "loop"
    /\ \E o1 \in NextRecordOf(parser1, source) :
          /\ o1.res.tag = "Err"
          /\ parser1' = o1.rd
          /\ Called1(o1.res)
    /\ UNCHANGED <<pc, parser2, record_count, current_batch, batch, todo>>
    /\ LoopFrame

\* what the steps after the loop, and the other threads, leave alone
RunFrame ==
    UNCHANGED <<source, classifyVars, callVars, parser1, parser2, min_overlap,
                max_mismatch_rate, record_count, io_failed, called_after_io, truncated,
                mergeVars, loadVars, collectVars>>

\* the record of a batch entry that is classified: merged if there is one
InputOf(paired_record) ==
    IF IsSome(paired_record.merged) THEN paired_record.merged[1] ELSE paired_record.r1

\* if let Some(analysis) = .. { tx.send(analysis) }: the channel after it;
\* the receiver lives as long as the Sender, so the send succeeds
Sent(ch, no, result) ==
    IF IsSome(result) THEN Append(ch, [no |-> no, analysis |-> result[1]]) ELSE ch

\* a worker of par_iter: analyze_read on a record of the batch and the send
\* of the result
Worker ==
    /\ \E i \in todo, sorted \in SortedPairs(primers) :
          /\ \E result \in {analyze_read(InputOf(batch[i]), primers, sorted, max_errors,
                                          min_distance)} :
                channel' = Sent(channel, NumberOf(i), result)
          /\ todo' = todo \ {i}
    /\ UNCHANGED <<pc, current_batch, batch, tx, wpc, statistics, sinkVars>>
    /\ RunFrame

\* process_batch returns in the loop
BatchDone ==
    /\ pc = "batch"
    /\ todo = {}
    /\ pc' = "loop"
    /\ batch' = <<>>
    /\ UNCHANGED <<current_batch, todo, tx, channel, wpc, statistics, sinkVars>>
    /\ RunFrame

\* after the loop: the last batch, if there is one
LastBatch ==
    /\ pc = "last"
    /\ IF last_batch_waits(current_batch)
       THEN /\ batch' = current_batch
            /\ todo' = 1..Len(current_batch)
            /\ current_batch' = <<>>
            /\ pc' = "last_batch"
       ELSE /\ pc' = "drop"
            /\ UNCHANGED <<batch, todo, current_batch>>
    /\ UNCHANGED <<tx, channel, wpc, statistics, sinkVars>>
    /\ RunFrame

\* process_batch returns after the loop
LastBatchDone ==
    /\ pc = "last_batch"
    /\ todo = {}
    /\ pc' = "drop"
    /\ batch' = <<>>
    /\ UNCHANGED <<current_batch, todo, tx, channel, wpc, statistics, sinkVars>>
    /\ RunFrame

\* drop(tx)
DropTx ==
    /\ pc = "drop"
    /\ tx' = FALSE
    /\ pc' = "join"
    /\ UNCHANGED <<current_batch, batch, todo, channel, wpc, statistics, sinkVars>>
    /\ RunFrame

\* writer_thread.join().unwrap()
Join ==
    /\ pc = "join"
    /\ join_returns
    /\ pc' = "stats"
    /\ UNCHANGED <<current_batch, batch, todo, tx, channel, wpc, statistics, sinkVars>>
    /\ RunFrame

\* writer.get_statistics()
GetStatistics ==
    /\ pc = "stats"
    /\ statistics' = Some(get_statistics(writer))
    /\ pc' = "save"
    /\ UNCHANGED <<current_batch, batch, todo, tx, channel, wpc, sinkVars>>
    /\ RunFrame

\* writer.save_statistics(&statistics)?, then the report
SaveStatistics ==
    /\ pc = "save"
    /\ \E saved \in BOOLEAN : pc' = IF saved THEN "done" ELSE "failed"
    /\ UNCHANGED <<current_batch, batch, todo, tx, channel, wpc, statistics, sinkVars>>
    /\ RunFrame

\* the writer thread: a message received, process called on it
Receive ==
    /\ wpc = "recv"
    /\ channel # <<>>
    /\ \E write_ok \in BOOLEAN :
          LET r == process(writer, Head(channel).analysis, write_ok) IN
          /\ writer' = r.writer
          /\ write_failed' = (write_failed \/ r.res = "Err")
    /\ unknown_count' = unknown_count + NoStrand(Head(channel).analysis)
    /\ consumed' = Append(consumed, Head(channel).no)
    /\ channel' = Tail(channel)
    /\ UNCHANGED <<pc, current_batch, batch, todo, tx, wpc, statistics>>
    /\ RunFrame

\* the writer thread: the channel empty and closed, the loop ends; finalize,
\* and the thread returns the writer
Finalize ==
    /\ wpc = "recv"
    /\ channel = <<>>
    /\ ~tx
    /\ writer' = finalize(writer)
    /\ wpc' = "exited"
    /\ UNCHANGED <<pc, current_batch, batch, todo, tx, channel, statistics, consumed,
                   write_failed, unknown_count>>
    /\ RunFrame

MainNext ==
    \/ BatchDone
    \/ LastBatch
    \/ LastBatchDone
    \/ DropTx
    \/ Join
    \/ GetStatistics
    \/ SaveStatistics
    \/ EndOfStream
    \/ SkipError
    \/ ReadSingle
    \/ ReadPair
    \/ SkipMismatch
    \/ Mate2End
    \/ Mate2Error

WriterNext == Receive \/ Finalize

Next == WriterNext \/ Worker \/ MainNext

Spec == Init /\ [][Next]_vars

\* the run on byte streams that do not fail
LiveInit == Start(FALSE)

\* as long as some thread can take a step, one is taken
SpecLive == LiveInit /\ [][Next]_vars /\ WF_vars(Next)

-----------------------------------------------------------------------------
(* process_reads on given files: the lines of the files are fixed when the  *)
(* run starts, so that runs on the same input can be compared.              *)

\* the four lines of a record
FourLines(id, sq, ql) == <<(<<"@">> \o id), sq, <<"+">>, ql>>

\* the records of a first file: a read of the plus strand, one of the minus
\* strand under another identifier, and a record whose quality is too short
Records1 ==
    { FourLines(<<"a", "/", "1">>, <<"T", "A", "T">>, <<"I", "I", "I">>),
      FourLines(<<"b", "/", "1">>, <<"A", "T", "A">>, <<"I", "I", "I">>),
      FourLines(<<"a", "/", "1">>, <<"T", "A", "T">>, <<"I">>) }

\* the records of a second file: the mates of the above
Records2 ==
    { FourLines(<<"a", "/", "2">>, <<"A", "T", "A">>, <<"I", "I", "I">>),
      FourLines(<<"b", "/", "2">>, <<"A", "T", "A">>, <<"I", "I", "I">>),
      FourLines(<<"a", "/", "2">>, <<"T", "A", "T">>, <<"I">>) }

\* the lines of a file of the records rs
RECURSIVE LinesOf(_)
LinesOf(rs) == IF rs = <<>> THEN <<>> ELSE Head(rs) \o LinesOf(Tail(rs))

FilesOf(recs) == {LinesOf(rs) : rs \in UNION {[1..k -> recs] : k \in 0..MaxRecords}}

\* the inputs of a run: one file, or two
RunFiles ==
    {Files(f1, <<>>, FALSE) : f1 \in FilesOf(Records1)}
        \cup {Files(f1, f2, TRUE) : f1 \in FilesOf(Records1), f2 \in FilesOf(Records2)}

FilesInit ==
    /\ source \in RunFiles
    /\ parser2 = IF source.paired THEN Some(NewReader) ELSE None
    /\ Begin

SpecFiles == FilesInit /\ [][Next]_vars

\* the single-end files, and the pairs of files whose second is the shorter
ShortMateFiles == {f \in RunFiles : ~f.paired \/ Len(f.r2) < Len(f.r1)}

ShortMateInit ==
    /\ source \in ShortMateFiles
    /\ parser2 = IF source.paired THEN Some(NewReader) ELSE None
    /\ Begin

\* the runs on these files, a step taken as long as some thread can take one
SpecFilesLive == ShortMateInit /\ [][Next]_vars /\ WF_vars(Next)

\* the pieces of a file with malformed records: two records as they should
\* be, a record cut after its sequence line, and a record whose ID line has
\* lost its '@' and whose quality line starts with '@' (Phred 31)
GoodChunks == { FourLines(<<"a">>, <<"T", "A", "T">>, <<"I", "I", "I">>),
                FourLines(<<"b">>, <<"A", "T", "A">>, <<"I", "I", "I">>) }

BadChunks == { << <<"@", "c">>, <<"T", "A", "T">> >>,
               << <<"c">>, <<"T", "A", "T">>, <<"+">>, <<"@", "I", "I">> >> }

ChunkSeqs == UNION {[1..k -> GoodChunks \cup BadChunks] : k \in 0..MaxRecords}

ResyncSources == {Files(LinesOf(cs), <<>>, FALSE) : cs \in ChunkSeqs}

ResyncInit ==
    /\ source \in RunFiles \cup ResyncSources
    /\ parser2 = IF source.paired THEN Some(NewReader) ELSE None
    /\ Begin

\* process_reads on files that hold malformed records too
SpecResync == ResyncInit /\ [][Next]_vars

-----------------------------------------------------------------------------
(* main: load_primers on the catalog, then process_reads with the table it  *)
(* returned; a catalog that cannot be loaded ends the run before it reads.  *)

\* a table as analyze_read takes it, the names of one character as strings
TableOf(val) == [n \in {name[1] : name \in DOMAIN val} |-> val[<<n>>]]

\* the rows of the catalogs: two valid rows, one of them in lower case, a row
\* with a character that is no base, and a comment
MainRows ==
    { <<"F", "\t", "A">>, <<"R", "\t", "t", "a">>, <<"S", "\t", "A", "X">>, <<"#", "c">> }

MainCatalogs ==
    UNION {[1..k -> {[ok |-> TRUE, text |-> t] : t \in MainRows}] : k \in 0..MaxCatalogLines}

\* the input files: single-end and paired, with a malformed record, a pair of
\* different identifiers and a second file that ends early among them
MainFiles ==
    LET a1 == FourLines(<<"a", "/", "1">>, <<"A", "T", "A">>, <<"I", "I", "I">>)
        b1 == FourLines(<<"b", "/", "1">>, <<"T", "A", "T">>, <<"I", "I", "I">>)
        x1 == FourLines(<<"a", "/", "1">>, <<"T", "A", "T">>, <<"I">>)
        a2 == FourLines(<<"a", "/", "2">>, <<"A", "T", "A">>, <<"I", "I", "I">>)
        b2 == FourLines(<<"b", "/", "2">>, <<"A", "T", "A">>, <<"I", "I", "I">>)
        x2 == FourLines(<<"b", "/", "2">>, <<"T", "A", "T">>, <<"I">>)
    IN { Files(LinesOf(<<a1, b1>>), <<>>, FALSE),
         Files(LinesOf(<<x1, a1>>), <<>>, FALSE),
         Files(LinesOf(<<a1, b1>>), LinesOf(<<a2, b2>>), TRUE),
         Files(LinesOf(<<b1, a1>>), LinesOf(<<a2, b2>>), TRUE),
         Files(LinesOf(<<a1, b1>>), LinesOf(<<a2, x2>>), TRUE),
         Files(LinesOf(<<a1, b1>>), LinesOf(<<a2>>), TRUE) }

MainInit ==
    /\ primer_file \in MainCatalogs
    /\ loaded = None
    /\ source \in MainFiles
    /\ parser1 = NewReader
    /\ parser2 = IF source.paired THEN Some(NewReader) ELSE None
    /\ primers = <<>>
    /\ max_errors = RunMaxErrors
    /\ min_distance = RunMinDistance
    /\ min_overlap = RunMinOverlap
    /\ max_mismatch_rate = RunMismatchRate
    /\ writer \in {NewWriter(0), NewWriter(RunMaxOutput)}
    /\ consumed = <<>>
    /\ write_failed = FALSE
    /\ unknown_count = 0
    /\ pc = "load"
    /\ record_count = 0
    /\ current_batch = <<>>
    /\ batch = <<>>
    /\ todo = {}
    /\ tx = FALSE
    /\ channel = <<>>
    /\ wpc = "idle"
    /\ statistics = None
    /\ io_failed = FALSE
    /\ called_after_io = FALSE
    /\ truncated = FALSE
    /\ record = EmptyRecord
    /\ analysis = None
    /\ called = FALSE
    /\ CallsIdle
    /\ MergeIdle
    /\ CollectIdle

\* load_primers(&args.primers)?, and process_reads up to its loop: the
\* channel and the writer thread are there
LoadAndStart ==
    /\ pc = "load"
    /\ \E res \in {load_primers(primer_file)} :
          /\ loaded' = Some(res)
          /\ IF res.tag = "Ok"
             THEN /\ primers' = TableOf(res.val)
                  /\ pc' = "loop"
                  /\ tx' = TRUE
                  /\ wpc' = "recv"
             ELSE /\ pc' = "failed"
                  /\ UNCHANGED <<primers, tx, wpc>>
    /\ UNCHANGED <<record, max_errors, min_distance, analysis, called, readerVars, callVars,
                   sinkVars, min_overlap, max_mismatch_rate, record_count, current_batch,
                   batch, todo, channel, statistics, io_failed, called_after_io, truncated,
                   mergeVars, primer_file, collectVars>>

ProgramNext == LoadAndStart \/ Next

SpecMain == MainInit /\ [][ProgramNext]_vars

-----------------------------------------------------------------------------
(* The hypotheses of a read, stated apart from the loops: a pair (a, b) of   *)
(* names with a before b, and a strand, with the alignment f of the forward  *)
(* primer and r of the reverse primer's complement.                          *)

Hypotheses(tbl) ==
    {h \in [a : DOMAIN tbl, b : DOMAIN tbl, strand : {"+", "-"}] : NameLess(h.a, h.b)}

\* the names reported as forward and reverse primer
HypForwardName(h) == IF h.strand = "+" THEN h.a ELSE h.b

HypReverseName(h) == IF h.strand = "+" THEN h.b ELSE h.a

Aligned(h) ==
    [a |-> h.a, b |-> h.b, strand |-> h.strand,
     f |-> Align(primers[HypForwardName(h)][1], record.seq, max_errors),
     r |-> Align(primers[HypReverseName(h)][2], record.seq, max_errors)]

AlignedHyps == {Aligned(h) : h \in Hypotheses(primers)}

BothFound(h) == IsSome(h.f) /\ IsSome(h.r)

HypAccepted(h) == BothFound(h) /\ h.f[1].position < h.r[1].position

HypScore(h) == h.f[1].edit_distance + h.r[1].edit_distance

\* the place in the enumeration: pairs in name order, plus before minus
HypBefore(g, h) ==
    \/ NameRank(g.a) < NameRank(h.a)
    \/ g.a = h.a /\ NameRank(g.b) < NameRank(h.b)
    \/ g.a = h.a /\ g.b = h.b /\ g.strand = "+" /\ h.strand = "-"

Accepted == {h \in AlignedHyps : HypAccepted(h)}

\* the analysis reports hypothesis h
Reports(a, h) ==
    /\ a.strand = h.strand
    /\ a.f_primer = HypForwardName(h)
    /\ a.r_primer = HypReverseName(h)
    /\ a.f_match = create_primer_match(h.f)
    /\ a.r_match = create_primer_match(h.r)

-----------------------------------------------------------------------------
(* Claims on analyze_read, under SpecClassify. *)

\* C1: analyze_read returns exactly one ReadAnalysis for every read, table
\* and parameters, never nothing; a read without an accepted hypothesis gets
\* the unknown analysis (strand '?', placeholder names) for its own id.
C1_AlwaysClassifies ==
    called =>
        /\ IsSome(analysis)
        /\ analysis[1].read_id = record.id
        /\ analysis[1].length = Len(record.seq)
        /\ Accepted = {} => analysis[1] = UnknownAnalysis(record)

\* a read on which both primers of a hypothesis are found, none in the order
\* that accepts it
C1_Witness ==
    /\ called
    /\ IsSome(analysis)
    /\ analysis[1].strand = "?"
    /\ LET hyps == AlignedHyps IN
       /\ \E h \in hyps : BothFound(h)
       /\ \A h \in hyps : ~HypAccepted(h)

\* C2: the reported hypothesis is an accepted one of minimum score, and no
\* accepted hypothesis of the same score comes before it in the enumeration
\* (pairs in name order, plus before minus).
C2_FirstMinimum ==
    (called /\ IsSome(analysis)) =>
        LET acc == Accepted IN
        IF acc = {} THEN analysis[1].strand = "?"
        ELSE \E h \in acc :
                /\ Reports(analysis[1], h)
                /\ \A g \in acc : HypScore(h) <= HypScore(g)
                /\ \A g \in acc : HypScore(g) = HypScore(h) => ~HypBefore(g, h)

\* a tie between the reported hypothesis and a later one of another pair,
\* and an earlier accepted hypothesis of a larger score
C2_Witness ==
    /\ called
    /\ IsSome(analysis)
    /\ analysis[1].strand # "?"
    /\ LET acc == Accepted IN
       /\ \E h \in acc, g \in acc :
             /\ Reports(analysis[1], h)
             /\ HypBefore(h, g)
             /\ <<g.a, g.b>> # <<h.a, h.b>>
             /\ HypScore(g) = HypScore(h)
       /\ \E h \in acc, g \in acc :
             /\ Reports(analysis[1], h)
             /\ HypBefore(g, h)
             /\ HypScore(g) > HypScore(h)

\* C3: a reported hypothesis has its forward position strictly before its
\* reverse position, and its distance is their difference, hence positive;
\* the distance is defined for every reported hypothesis.
C3_PositiveDistance ==
    (called /\ IsSome(analysis)) =>
        LET a == analysis[1] IN
        /\ a.strand # "?" =>
              /\ IsSome(a.f_match.position) /\ IsSome(a.r_match.position)
              /\ a.f_match.position[1] < a.r_match.position[1]
              /\ a.distance = Some(a.r_match.position[1] - a.f_match.position[1])
        /\ IsSome(a.distance) =>
              /\ a.strand # "?"
              /\ a.distance[1] > 0

\* a read where a hypothesis has both primers found in the wrong order, and
\* another one is reported
C3_Witness ==
    /\ called
    /\ IsSome(analysis)
    /\ IsSome(analysis[1].distance)
    /\ \E h \in AlignedHyps : BothFound(h) /\ h.f[1].position >= h.r[1].position

\* C4: is_dimer is true exactly when the distance is defined and smaller
\* than min_distance.
C4_IsDimer ==
    (called /\ IsSome(analysis)) =>
        LET a == analysis[1] IN
        a.is_dimer <=> (IsSome(a.distance) /\ a.distance[1] < min_distance)

\* the distance that is just not a dimer's
C4_WitnessBoundary ==
    /\ called
    /\ IsSome(analysis)
    /\ IsSome(analysis[1].distance)
    /\ analysis[1].distance[1] = min_distance
    /\ ~analysis[1].is_dimer

\* a dimer
C4_Witness ==
    /\ called
    /\ IsSome(analysis)
    /\ analysis[1].is_dimer
    /\ analysis[1].distance[1] + 1 = min_distance

-----------------------------------------------------------------------------
(* Claims on AnalysisWriter::process, under SpecSink. *)

\* C5: after n calls of process, total_reads is n; the row counter is the
\* number of rows written and, with a cap, never exceeds max_output; and as
\* long as no write has failed the rows written are n without a cap
\* (max_output = 0) and min(n, max_output) with one.
C5_CountsAndCap ==
    /\ writer.stats.total_reads = Len(consumed)
    /\ writer.count = Len(writer.rows)
    /\ writer.max_output > 0 => writer.count <= writer.max_output
    /\ ~write_failed =>
          Len(writer.rows) = IF writer.max_output = 0
                             THEN Len(consumed)
                             ELSE Min(Len(consumed), writer.max_output)

\* process was called twice more after the cap was reached
C5_Witness ==
    /\ writer.max_output = 2
    /\ Len(consumed) = 4
    /\ ~write_failed
    /\ Len(writer.rows) = 2
    /\ writer.stats.total_reads = 4

-----------------------------------------------------------------------------
(* Claims on process_reads, under Spec and SpecLive. *)

\* the numbers of the records pushed that wait in current_batch
Waiting == {record_count - Len(current_batch) + i : i \in 1..Len(current_batch)}

\* the numbers of the records of the batch in hand that no worker has taken
InHand == {NumberOf(i) : i \in todo}

\* the numbers of the results sent and received, in the order of the sends
Delivered == consumed \o [k \in 1..Len(channel) |-> channel[k].no]

\* the main thread is past the join
Joined_ == pc \in {"stats", "save", "done", "failed"}

\* C6: every record pushed into a batch is, at any time, in exactly one
\* place -- waiting in current_batch, in the batch in hand and not yet
\* taken, or classified with its one result in the channel or consumed by
\* process -- and no result is there twice; process has counted what it
\* consumed; and once the writer thread is joined every record pushed has
\* been consumed: total_reads = record_count.
C6_ExactlyOnce ==
    /\ \A k, l \in 1..Len(Delivered) : Delivered[k] = Delivered[l] => k = l
    /\ Waiting \cup InHand \cup {Delivered[k] : k \in 1..Len(Delivered)} = 1..record_count
    /\ Cardinality(Waiting) + Cardinality(InHand) + Len(Delivered) = record_count
    /\ writer.stats.total_reads = Len(consumed)
    /\ Joined_ => /\ writer.stats.total_reads = record_count
                  /\ {consumed[k] : k \in 1..Len(consumed)} = 1..record_count

\* a run with a full batch and a last batch that is not full, at its end
C6_Witness ==
    /\ pc = "done"
    /\ record_count = BatchSize + 1
    /\ writer.stats.total_reads = BatchSize + 1

\* C7: once the Sender is dropped no worker has a record left to send; the
\* main thread is past the join only when the Sender is dropped, the channel
\* is empty and the writer thread has called finalize and returned; and the
\* statistics, once read, are those of a writer that has consumed every
\* result sent.
C7_StatisticsAfterDrain ==
    /\ ~tx => todo = {} /\ pc \in {"join", "stats", "save", "done", "failed"}
    /\ Joined_ => ~tx /\ channel = <<>> /\ wpc = "exited" /\ writer.finished
    /\ statistics # None =>
          /\ pc \in {"save", "done", "failed"}
          /\ statistics[1] = get_statistics(writer)
          /\ statistics[1].total_reads = record_count

\* the statistics of a run of two records or more are read and about to be saved
C7_Witness ==
    /\ pc = "save"
    /\ statistics # None
    /\ statistics[1].total_reads >= 2

\* C8: after a call of next_record has returned an I/O error, next_record is
\* not called again.
C8_IoErrorFatal == ~called_after_io

\* C9: on byte streams that end and do not fail, the run comes to its end:
\* the writer thread has finalized and returned, and the main thread has
\* saved the statistics or failed to.
C9_Terminates == <>(pc \in {"done", "failed"} /\ wpc = "exited")

\* a run that met a truncation error, at its end
C9_Witness ==
    /\ truncated
    /\ pc = "done"
    /\ wpc = "exited"

-----------------------------------------------------------------------------
(* Claims on next_record, under SpecParser. *)

\* C10: a call of next_record whose first read_line finds the stream at its
\* end returns Ok(false), not an error, and after a call returned Ok(false)
\* the next call returns Ok(false) too (hence every later call).
C10_CleanEndOfStream ==
    /\ nr_first = Some("Ok0") => nr_result = Some(Ok(FALSE))
    /\ (nr_prev = Some(Ok(FALSE)) /\ nr_calls >= 2) => nr_result = Some(Ok(FALSE))

\* the stream ended after a whole record, and next_record was called twice more
C10_Witness ==
    /\ nr_calls = 3
    /\ parser1.n = 4
    /\ nr_prev = Some(Ok(FALSE))
    /\ nr_result = Some(Ok(FALSE))

\* C11: a call of next_record in which the stream ends after one, two or
\* three lines of a record returns an error with one of the truncation
\* messages (lines 147, 161, 173); an error with one of the format messages
\* (lines 133, 151, 164, 177, 186) is returned only for a line that was
\* delivered; no message is of both kinds, so the error tells a caller which
\* of the two happened.
C11_TruncationDistinct ==
    /\ Truncations \cap FormatErrors = {}
    /\ (nr_first = Some("Ok") /\ parser1.eof)
          => nr_result \in {Some(Err(t)) : t \in Truncations}
    /\ nr_result \in {Some(Err(f)) : f \in FormatErrors}
          => (nr_first = Some("Ok") /\ ~parser1.eof)

\* a record with a quality line too short, then a record cut after its
\* sequence line
C11_Witness ==
    /\ nr_prev = Some(Err("length"))
    /\ nr_result = Some(Err("plus_eof"))
    /\ parser1.eof
    /\ parser1.n = 6

-----------------------------------------------------------------------------
(* Claims on the records of a run, under Spec. *)

\* a record with a sequence, and a quality of the same length
WellFormed(rec) == rec.seq # <<>> /\ Len(rec.seq) = Len(rec.qual)

\* the entries of the batch being filled and of the batch the workers hold
Entries ==
    {current_batch[i] : i \in DOMAIN current_batch} \cup {batch[i] : i \in DOMAIN batch}

\* C12: every record that is handed to analyze_read, the r1 that next_record
\* filled and the merged record that merge_paired_reads returned, has a
\* sequence that is not empty and a quality of the length of the sequence.
C12_ReadsWellFormed ==
    \A p \in Entries :
        /\ WellFormed(p.r1)
        /\ IsSome(p.merged) => WellFormed(p.merged[1])
        /\ WellFormed(InputOf(p))

\* a batch in the workers' hands that holds a pair merged on an overlap
C12_Witness ==
    /\ pc = "batch"
    /\ \E i \in DOMAIN batch :
          /\ IsSome(batch[i].merged)
          /\ Len(batch[i].merged[1].seq) = 4
          /\ Len(batch[i].r1.seq) = 3

-----------------------------------------------------------------------------
(* Claims on merge_paired_reads, under SpecMerge.  The overlap a merge was  *)
(* made on is read from the id of the merged record; the overlaps that are  *)
(* acceptable are stated from the two records, without the loop.            *)

\* revcomp(r2): the sequence, and the quality only reversed
R2Rc == revcomp(record2.seq)

R2RcQual == [i \in 1..Len(record2.qual) |-> record2.qual[Len(record2.qual) + 1 - i]]

MaxOverlap == Min(Len(record1.seq), Len(R2Rc))

\* the mismatches between the last L bases of r1 and the first L of revcomp(r2)
MismatchCount(L) ==
    Cardinality({i \in 1..L : record1.seq[Len(record1.seq) - L + i] # R2Rc[i]})

\* L is in range and its mismatches divided by L are at most
\* max_mismatch_rate; no quotient is defined for L = 0
Satisfies(L) ==
    /\ L \in min_overlap..MaxOverlap
    /\ L > 0
    /\ MismatchCount(L) * max_mismatch_rate.den <= max_mismatch_rate.num * L

\* the merged record says it was made on an overlap of L
MergedOn(L) ==
    /\ IsSome(merged)
    /\ merged[1].id = get_sequence_id(record1.id) \o merged_overlap_text \o to_string(L)

\* the merged record says it is a concatenation
MergedConcat ==
    /\ IsSome(merged)
    /\ merged[1].id = get_sequence_id(record1.id) \o merged_concat_text

\* C13: a merged record made on an overlap of L has len(r1) + len(r2) - L
\* bases, one made without an overlap len(r1) + len(r2); every merged record
\* is one or the other.
C13_MergedLength ==
    (merge_done /\ IsSome(merged)) =>
        /\ MergedConcat \/ \E L \in 0..MaxOverlap : MergedOn(L)
        /\ \A L \in 0..MaxOverlap :
              MergedOn(L) => Len(merged[1].seq) = Len(record1.seq) + Len(record2.seq) - L
        /\ MergedConcat => Len(merged[1].seq) = Len(record1.seq) + Len(record2.seq)

\* two records of two bases merged on an overlap of one
C13_Witness ==
    /\ merge_done
    /\ Len(record1.seq) = 2
    /\ Len(record2.seq) = 2
    /\ MergedOn(1)
    /\ Len(merged[1].seq) = 3

ConsensusBase(L, i) ==
    IF Byte(R2RcQual[i]) > Byte(record1.qual[Len(record1.qual) - L + i])
    THEN R2Rc[i]
    ELSE record1.seq[Len(record1.seq) - L + i]

ConsensusQual(L, i) ==
    IF Byte(R2RcQual[i]) > Byte(record1.qual[Len(record1.qual) - L + i])
    THEN R2RcQual[i]
    ELSE record1.qual[Len(record1.qual) - L + i]

\* the merged record of an overlap of L, position by position
ExpectedBase(L, j) ==
    IF j <= Len(record1.seq) - L THEN record1.seq[j]
    ELSE IF j <= Len(record1.seq) THEN ConsensusBase(L, j - (Len(record1.seq) - L))
    ELSE R2Rc[j - (Len(record1.seq) - L)]

ExpectedQual(L, j) ==
    IF j <= Len(record1.seq) - L THEN record1.qual[j]
    ELSE IF j <= Len(record1.seq) THEN ConsensusQual(L, j - (Len(record1.seq) - L))
    ELSE R2RcQual[j - (Len(record1.seq) - L)]

\* C15: a merged record made on an overlap of L is r1 without its last L
\* positions, then L consensus positions, then revcomp(r2) without its first
\* L positions, the quality of r2 reversed and not complemented; a consensus
\* position has the base and the quality of the mate with the strictly
\* higher quality, those of r1 when the qualities are equal.
C15_Consensus ==
    merge_done =>
        \A L \in 0..MaxOverlap :
            MergedOn(L) =>
                /\ Len(merged[1].seq) = Len(record1.seq) + Len(R2Rc) - L
                /\ Len(merged[1].qual) = Len(merged[1].seq)
                /\ \A j \in 1..Len(merged[1].seq) :
                      /\ merged[1].seq[j] = ExpectedBase(L, j)
                      /\ merged[1].qual[j] = ExpectedQual(L, j)

\* an overlap of the two bases of each record: one position a tie of the
\* qualities with different bases, one where revcomp(r2) has the higher
\* quality
C15_Witness ==
    /\ merge_done
    /\ MergedOn(2)
    /\ Len(record1.seq) = 2
    /\ \E i \in 1..2 :
          /\ record1.seq[i] # R2Rc[i]
          /\ Byte(R2RcQual[i]) = Byte(record1.qual[i])
    /\ \E i \in 1..2 : Byte(R2RcQual[i]) > Byte(record1.qual[i])

\* C16: when no overlap length is acceptable, the range being empty
\* (min(len(r1), len(r2)) < min_overlap) or searched in vain, the merged
\* record is the concatenation: r1's sequence then revcomp(r2), r1's quality
\* then r2's reversed, nothing trimmed, and the id with the concatenation
\* marker.
C16_Concatenation ==
    (merge_done /\ ~\E L \in 0..MaxOverlap : Satisfies(L)) =>
        merged = Some([id |-> get_sequence_id(record1.id) \o merged_concat_text,
                       seq |-> record1.seq \o R2Rc,
                       qual |-> record1.qual \o R2RcQual])

\* a search over the lengths one and two that accepts neither
C16_Witness ==
    /\ merge_done
    /\ min_overlap = 1
    /\ MaxOverlap = 2
    /\ MismatchCount(1) = 1
    /\ MismatchCount(2) = 2
    /\ MergedConcat
    /\ Len(merged[1].seq) = 4

\* no search: the shorter record is shorter than min_overlap
C16_WitnessNoSearch ==
    /\ merge_done
    /\ MaxOverlap < min_overlap
    /\ MergedConcat

-----------------------------------------------------------------------------
(* Claims on load_primers, under SpecLoad. *)

\* every line of the catalog could be read
Readable == \A i \in 1..Len(primer_file) : primer_file[i].ok

\* the lines of the catalog that are rows of a name and a sequence: neither
\* blank nor a comment, of two parts at least
DataRows ==
    {i \in 1..Len(primer_file) :
        /\ trim(primer_file[i].text) # <<>>
        /\ Head(primer_file[i].text) # "#"
        /\ Tabs(primer_file[i].text) # {}}

\* the rows whose sequence holds nothing but A, T, G, C, N in either case
ValidRows ==
    {i \in DataRows :
        \A k \in 1..Len(PrimerSeq(primer_file[i].text)) :
            PrimerSeq(primer_file[i].text)[k]
                \in {"A", "T", "G", "C", "N", "a", "t", "g", "c", "n"}}

\* the last valid row of a name
LastRowOf(name) ==
    CHOOSE i \in ValidRows :
        /\ PrimerName(primer_file[i].text) = name
        /\ \A j \in ValidRows : PrimerName(primer_file[j].text) = name => j <= i

\* C17: on a catalog whose lines can all be read, load_primers fails exactly
\* when no row is valid; otherwise it returns a table of the valid rows alone,
\* one entry per name of a valid row, holding the sequence of the last such
\* row in upper case: the invalid rows are dropped and the rest is loaded
C17_InvalidRowsDropped ==
    (loaded # None /\ Readable) =>
        /\ (ValidRows = {}) <=> (loaded[1].tag = "Err")
        /\ ValidRows = {} => loaded[1] = Err("no_primers")
        /\ ValidRows # {} =>
            /\ loaded[1].tag = "Ok"
            /\ DOMAIN loaded[1].val = {PrimerName(primer_file[i].text) : i \in ValidRows}
            /\ \A n \in DOMAIN loaded[1].val :
                   loaded[1].val[n][1]
                       = to_uppercase(PrimerSeq(primer_file[LastRowOf(n)].text))

\* an invalid row before a valid one: the call succeeds with the valid row alone
C17_Witness ==
    /\ primer_file = <<[ok |-> TRUE, text |-> <<"S", "\t", "A", "C", "G", "T", "X">>],
                       [ok |-> TRUE, text |-> <<"R", "\t", "g", "t">>]>>
    /\ loaded # None
    /\ loaded[1].tag = "Ok"
    /\ DOMAIN loaded[1].val = {<<"R">>}
    /\ loaded[1].val[<<"R">>][1] = <<"G", "T">>

\* the catalog whose only row is invalid: the call fails
C17_WitnessFatal ==
    /\ primer_file = <<[ok |-> TRUE, text |-> <<"S", "\t", "A", "C", "G", "T", "X">>]>>
    /\ loaded = Some(Err("no_primers"))


\* C18: revcomp undoes itself on every sequence over A, T, G, C, N, so every
\* entry of a loaded table gives its forward sequence back from the reverse
\* complement stored with it
C18_RevcompInvolution ==
    (loaded # None /\ loaded[1].tag = "Ok") =>
        \A n \in DOMAIN loaded[1].val :
            /\ revcomp(revcomp(loaded[1].val[n][1])) = loaded[1].val[n][1]
            /\ revcomp(loaded[1].val[n][2]) = loaded[1].val[n][1]

\* a row of a sequence that is not its own reverse complement, N included
C18_Witness ==
    /\ primer_file = <<RowOf(<<"A", "N", "G">>)>>
    /\ loaded # None
    /\ loaded[1].tag = "Ok"
    /\ loaded[1].val[<<"P">>] = <<(<<"A", "N", "G">>), (<<"C", "N", "T">>)>>


-----------------------------------------------------------------------------
(* Claims on the statistics of the writer, under SpecSink. *)

\* the sum of the counts of a histogram
RECURSIVE SumOf(_)
SumOf(map) ==
    IF DOMAIN map = {} THEN 0
    ELSE map[CHOOSE k \in DOMAIN map : TRUE]
         + SumOf([k \in DOMAIN map \ {CHOOSE k \in DOMAIN map : TRUE} |-> map[k]])

\* C19: after every call of process the counts of the primer_pairs histogram
\* add up to total_reads, the reads without primers counted under the pair of
\* placeholders
C19_HistogramSum ==
    /\ SumOf(writer.stats.primer_pairs) = writer.stats.total_reads
    /\ \A k \in DOMAIN writer.stats.primer_pairs : writer.stats.primer_pairs[k] >= 1

\* process called on reads of a pair of primers and on reads without primers,
\* one of the entries counted more than once
C19_Witness ==
    /\ writer.stats.total_reads = 4
    /\ <<"-", "-">> \in DOMAIN writer.stats.primer_pairs
    /\ writer.stats.primer_pairs[<<"-", "-">>] = 2
    /\ Cardinality(DOMAIN writer.stats.primer_pairs) >= 2

\* C20: after every call of process plus_strand, minus_strand and the number
\* of the values of unknown strand it was called on add up to total_reads:
\* every call counts under plus, under minus or under neither, never twice
C20_StrandSum ==
    /\ writer.stats.plus_strand + writer.stats.minus_strand + unknown_count
           = writer.stats.total_reads

\* process called on a read of each strand and on a read of none
C20_Witness ==
    /\ writer.stats.plus_strand >= 1
    /\ writer.stats.minus_strand >= 1
    /\ unknown_count >= 1
    /\ writer.stats.total_reads = Len(consumed)
    /\ Len(consumed) >= 3


-----------------------------------------------------------------------------
(* Claims on the runs on given files, under SpecFiles.  What a run produces *)
(* is stated from the files alone, record by record in the order of the     *)
(* input, and compared with what the threads have made of it.               *)

\* the one outcome of next_record on a file
TheRecord(rd, src) == CHOOSE o \in next_record(rd, src) : TRUE

\* the records the main loop pushes, in the order of the input, from the
\* readers rd1 and rd2 on
RECURSIVE Produced(_, _, _)
ProducedAfter2(o1, o2, src) ==
    IF o2.res = Ok(FALSE) THEN <<>>
    ELSE IF o2.res.tag = "Err" THEN Produced(o1.rd, o2.rd, src)
    ELSE IF get_sequence_id(o1.rec.id) # get_sequence_id(o2.rec.id)
         THEN Produced(o1.rd, o2.rd, src)
    ELSE <<[r1 |-> o1.rec,
            merged |-> merge_paired_reads(o1.rec, o2.rec, min_overlap, max_mismatch_rate)]>>
         \o Produced(o1.rd, o2.rd, src)

ProducedAfter1(o1, rd2, src) ==
    IF o1.res = Ok(FALSE) THEN <<>>
    ELSE IF o1.res.tag = "Err" THEN Produced(o1.rd, rd2, src)
    ELSE IF ~src.paired THEN <<PairedFastqRecord_new(o1.rec)>> \o Produced(o1.rd, rd2, src)
    ELSE ProducedAfter2(o1, TheRecord(rd2, Mate(src)), src)

Produced(rd1, rd2, src) == ProducedAfter1(TheRecord(rd1, src), rd2, src)

\* the records of the run, and their number
RunRecords == Produced(NewReader, NewReader, source)

\* the ReadAnalysis of a record pushed
AnalysisOf(paired_record) ==
    analyze_read(InputOf(paired_record), primers,
                 CHOOSE sorted \in SortedPairs(primers) : TRUE, max_errors, min_distance)[1]

\* the statistics of process called on the records rs one after the other
RECURSIVE CountAll(_, _)
CountAll(stats, rs) ==
    IF rs = <<>> THEN stats ELSE CountAll(Count(stats, AnalysisOf(Head(rs))), Tail(rs))

\* C21: once the writer thread has drained the channel, the statistics are
\* those of process called on the records of the input in the order of the
\* input, in whatever order the workers have delivered their results; the
\* snapshot get_statistics returns is taken from them
C21_OrderIndependent ==
    /\ wpc = "exited" => writer.stats = CountAll(NewStatistics, RunRecords)
    /\ statistics # None =>
           statistics[1] = get_statistics([writer EXCEPT
                                              !.stats = CountAll(NewStatistics, RunRecords)])

\* the results of a read of the plus strand and of one of the minus strand
\* were delivered against the order of the input
C21_Witness ==
    /\ statistics # None
    /\ consumed = <<2, 1>>
    /\ writer.stats.plus_strand = 1
    /\ writer.stats.minus_strand = 1
    /\ AnalysisOf(RunRecords[1]).strand = "+"
    /\ AnalysisOf(RunRecords[2]).strand = "-"

\* C22: without a cap, and with no write failing, the rows of the result
\* file are the rows of the records of the input taken in the order of
\* arrival: every result process was called on has its one row, no record
\* has two, and once the channel is drained every record has its row
C22_RowsPermutation ==
    (writer.max_output = 0 /\ ~write_failed) =>
        \A rs \in {RunRecords} :
            /\ Len(writer.rows) = Len(consumed)
            /\ \A k \in 1..Len(consumed) :
                   /\ consumed[k] \in 1..Len(rs)
                   /\ writer.rows[k] = Row(AnalysisOf(rs[consumed[k]]))
            /\ \A j, k \in 1..Len(consumed) : consumed[j] = consumed[k] => j = k
            /\ wpc = "exited" => {consumed[k] : k \in 1..Len(consumed)} = 1..Len(rs)

\* two rows written against the order of the input
C22_Witness ==
    /\ wpc = "exited"
    /\ writer.max_output = 0
    /\ ~write_failed
    /\ consumed = <<2, 1>>
    /\ Len(writer.rows) = 2
    /\ writer.rows[1] = Row(AnalysisOf(RunRecords[2]))
    /\ writer.rows[1] # writer.rows[2]

\* the rows of the result file, their order ignored
RowSet == {writer.rows[k] : k \in 1..Len(writer.rows)}

\* the rows of the first n records of the input
FirstRows(rs, n) == {Row(AnalysisOf(rs[i])) : i \in 1..Min(n, Len(rs))}

\* the rows a run writes if every result arrives in the order of the input
RowsInOrder(rs) ==
    FirstRows(rs, IF writer.max_output = 0 THEN Len(rs) ELSE writer.max_output)

\* C23: the set of the rows a finished run has written, no write failing, is
\* the same in every run on the same files with the same parameters: it is
\* the set the run delivering its results in the order of the input writes
C23_RowSetDetermined ==
    (wpc = "exited" /\ ~write_failed) => RowSet = RowsInOrder(RunRecords)

\* a run of max_output 1 on one file of a read of the plus strand and a read
\* of the minus strand, finished, no write failing
C23_CappedRun ==
    /\ source = Files(LinesOf(<<FourLines(<<"a", "/", "1">>, <<"T", "A", "T">>,
                                           <<"I", "I", "I">>),
                                 FourLines(<<"b", "/", "1">>, <<"A", "T", "A">>,
                                           <<"I", "I", "I">>)>>),
                      <<>>, FALSE)
    /\ writer.max_output = 1
    /\ wpc = "exited"
    /\ ~write_failed

\* that run with the row of the first record in the result file
C23_FirstWritten == C23_CappedRun /\ RowSet = {Row(AnalysisOf(RunRecords[1]))}

\* the same run with the row of the second record instead
C23_SecondWritten == C23_CappedRun /\ RowSet = {Row(AnalysisOf(RunRecords[2]))}


-----------------------------------------------------------------------------
(* Claims on the order of the pairs, under SpecClassifyUnsorted. *)

\* C24: the result of the classification is that of the enumeration of the
\* pairs in the order of the names, whatever the order in which the table is
\* iterated: it depends on the read, the entries and the parameters alone
C24_NameOrder ==
    called =>
        \A o \in Orders(DOMAIN primers) :
            analysis = analyze_read(record, primers, SortByName(o), max_errors, min_distance)

\* the table F = AT, S = TA iterated as S, F on the read TTA with one error
\* allowed: the pair is taken as (S, F) and the alignments of the plus strand
\* of (F, S) are found by its minus check
C24_StrandFlipped ==
    /\ called
    /\ DOMAIN primers = {"F", "S"}
    /\ primers["F"][1] = <<"A", "T">>
    /\ primers["S"][1] = <<"T", "A">>
    /\ record.seq = <<"T", "T", "A">>
    /\ max_errors = 1
    /\ analysis[1].strand = "-"
    /\ analyze_read(record, primers, <<"F", "S">>, max_errors, min_distance)[1].strand = "+"

-----------------------------------------------------------------------------
(* Claims on the pairing of the mates, under SpecFiles. *)

\* the mate identifier of the i-th record of a file of well-formed records:
\* the first token of its ID line, a trailing /1 or /2 stripped
MateIdAt(f, i) == get_sequence_id(first_token(Tail(f[4 * i - 3]), <<>>))

RecordsIn(f) == Len(f) \div 4

\* every record of the file has a quality as long as its sequence
CleanFile(f) == \A i \in 1..RecordsIn(f) : Len(f[4 * i - 2]) = Len(f[4 * i])

\* the places at which both files have a record, of the same mate identifier
MatchedPlaces ==
    {i \in 1..Min(RecordsIn(source.r1), RecordsIn(source.r2)) :
        MateIdAt(source.r1, i) = MateIdAt(source.r2, i)}

\* both parsers have a record next, and the mate identifiers differ
MismatchAhead ==
    /\ pc = "loop"
    /\ parser2 # None
    /\ TheRecord(parser1, source).res = Ok(TRUE)
    /\ TheRecord(parser2[1], Mate(source)).res = Ok(TRUE)
    /\ get_sequence_id(TheRecord(parser1, source).rec.id)
           # get_sequence_id(TheRecord(parser2[1], Mate(source)).rec.id)

\* C25: in a paired run, the iteration of the main loop that reads an R1 and
\* an R2 record of different mate identifiers pushes nothing and counts
\* nothing, and leaves both parsers one record (four lines) further, so that
\* the next R1 meets the next R2; on files of well-formed records the reads
\* counted are then the places at which the two files agree
C25_MismatchSkipped ==
    /\ [][(MismatchAhead /\ parser1' # parser1) =>
             /\ UNCHANGED <<pc, record_count, current_batch, batch, todo, channel, writer>>
             /\ parser1'.n = parser1.n + 4
             /\ parser2'[1].n = parser2[1].n + 4]_vars
    /\ []((source.paired /\ CleanFile(source.r1) /\ CleanFile(source.r2) /\ wpc = "exited")
              => writer.stats.total_reads = Cardinality(MatchedPlaces))

\* b/1 met a/2 and was skipped with it; a/1 then met a/2, and that pair alone
\* was classified and counted
C25_Witness ==
    /\ source.paired
    /\ RecordsIn(source.r1) = 2
    /\ RecordsIn(source.r2) = 2
    /\ CleanFile(source.r1)
    /\ CleanFile(source.r2)
    /\ MateIdAt(source.r1, 1) = <<"b">>
    /\ MateIdAt(source.r2, 1) = <<"a">>
    /\ MatchedPlaces = {2}
    /\ parser1.n = 8
    /\ parser2[1].n = 8
    /\ wpc = "exited"
    /\ record_count = 1
    /\ writer.stats.total_reads = 1

-----------------------------------------------------------------------------
(* Claims on the shape of a ReadAnalysis, under SpecClassify. *)

\* shape (a): a strand, both matches found, the names of two entries, a distance
ShapeFound(a) ==
    /\ a.strand \in {"+", "-"}
    /\ a.f_match.found
    /\ a.r_match.found
    /\ a.f_primer \in DOMAIN primers
    /\ a.r_primer \in DOMAIN primers
    /\ IsSome(a.distance)

\* shape (b): no strand, no match, the placeholders, no distance, no dimer
ShapeUnknown(a) ==
    /\ a.strand = "?"
    /\ ~a.f_match.found
    /\ ~a.r_match.found
    /\ a.f_primer = "-"
    /\ a.r_primer = "-"
    /\ a.distance = None
    /\ ~a.is_dimer

\* C26: a ReadAnalysis has one of the two shapes and never both, so both
\* matches are found or neither is, and process counts it under
\* both_primers_found exactly when it counts it under plus_strand or
\* minus_strand: the counters, all zero at first, keep
\* both_primers_found = plus_strand + minus_strand
C26_TwoShapes ==
    called =>
        /\ IsSome(analysis)
        /\ ShapeFound(analysis[1]) # ShapeUnknown(analysis[1])
        /\ analysis[1].f_match.found = analysis[1].r_match.found
        /\ \A counted \in {Count(NewStatistics, analysis[1])} :
               counted.both_primers_found = counted.plus_strand + counted.minus_strand
        /\ NewStatistics.both_primers_found
               = NewStatistics.plus_strand + NewStatistics.minus_strand

\* a read of the minus strand, of shape (a)
C26_Witness ==
    /\ called
    /\ IsSome(analysis)
    /\ analysis[1].strand = "-"
    /\ ShapeFound(analysis[1])
    /\ Cardinality(DOMAIN primers) = 3

\* a read of shape (b) on which a primer of the table is found
C26_WitnessUnknown ==
    /\ called
    /\ IsSome(analysis)
    /\ ShapeUnknown(analysis[1])
    /\ \E h \in AlignedHyps : IsSome(h.f)

\* the counters of a writer in a run
C26_CountersAgree ==
    writer.stats.both_primers_found = writer.stats.plus_strand + writer.stats.minus_strand

\* a PrimerMatch is consistent with the bound max_errors
Consistent(pm) ==
    /\ pm.found =>
          /\ IsSome(pm.position)
          /\ IsSome(pm.errors)
          /\ pm.position[1] >= 0
          /\ pm.errors[1] >= 0
          /\ pm.errors[1] <= max_errors
    /\ ~pm.found => (pm.position = None /\ pm.errors = None)

\* C28: every PrimerMatch, those of the ReadAnalysis and those of every
\* alignment of a primer of the table on the read, is consistent with the
\* bound: found with a position and 0 <= errors <= max_errors, or not found
\* with neither; an alignment whose distance is above max_errors, or that
\* has no result, gives no match
C28_MatchConsistent ==
    called =>
        /\ Consistent(analysis[1].f_match)
        /\ Consistent(analysis[1].r_match)
        /\ \A h \in AlignedHyps :
               /\ Consistent(create_primer_match(h.f))
               /\ Consistent(create_primer_match(h.r))
        /\ \A n \in DOMAIN primers :
               \A res \in {edlibAlignRs(primers[n][1], record.seq, max_errors)} :
                   (res.editDistance < 0 \/ res.editDistance > max_errors)
                       => ~create_primer_match(Align(primers[n][1], record.seq,
                                                     max_errors)).found

\* a primer found with one error, the most allowed, and another not found
C28_Witness ==
    /\ called
    /\ max_errors = 1
    /\ \E h \in AlignedHyps :
           /\ create_primer_match(h.f).found
           /\ create_primer_match(h.f).errors = Some(1)
           /\ ~create_primer_match(h.r).found

\* no limit given to the aligner (max_errors below zero): it answers with a
\* distance, which is above max_errors, and nothing is found
C28_WitnessNoLimit ==
    /\ called
    /\ max_errors = -1
    /\ \E n \in DOMAIN primers :
           /\ edlibAlignRs(primers[n][1], record.seq, max_errors).editDistance = 0
           /\ ~create_primer_match(Align(primers[n][1], record.seq, max_errors)).found

-----------------------------------------------------------------------------
(* Claims on the rates of the statistics. *)

\* the rate the statistics are to show for a count among total reads
RateOf(count, total) == IF total = 0 THEN Rate(0, 1) ELSE Rate(count * 100, total)

\* the rates of a statistics snapshot are those of its counts, 0 for no read
RatesRight(st) ==
    /\ RateEq(st.success_rate, RateOf(st.both_primers_found, st.total_reads))
    /\ RateEq(st.dimer_rate, RateOf(st.dimer_count, st.total_reads))
    /\ \A p \in st.primer_pairs : RateEq(p.percentage, RateOf(p.count, st.total_reads))

\* C27: the statistics collect_statistics returns have
\* success_rate = both_primers_found / total_reads * 100, and success_rate,
\* dimer_rate and every percentage 0 when total_reads is 0
C27_RatesCollected == IsSome(collected) => RatesRight(collected[1])

\* collect_statistics called on no analysis, for an input without a read
C27_EmptyInput ==
    /\ IsSome(collected)
    /\ analyses = <<>>
    /\ collected[1].total_reads = 0
    /\ collected[1].success_rate = NaN
    /\ collected[1].dimer_rate = NaN

\* with a read or more, the rates collect_statistics returns are right
C27_RatesOfReads ==
    (IsSome(collected) /\ analyses # <<>>) => RatesRight(collected[1])

\* the snapshot get_statistics returns has the rates right, those of no read too
C27_RatesOfSink == IsSome(statistics) => RatesRight(statistics[1])

\* get_statistics called on a writer that was handed no read
C27_SinkEmpty ==
    /\ IsSome(statistics)
    /\ statistics[1].total_reads = 0
    /\ statistics[1].success_rate = Rate(0, 1)

-----------------------------------------------------------------------------
(* Claims on the roles of the two primers of a pair, under SpecClassify. *)

\* the matches of an analysis are the alignments of the forward sequence of
\* its f_primer and of the reverse complement of its r_primer
RolesOf(a) ==
    /\ a.f_match = create_primer_match(Align(primers[a.f_primer][1], record.seq, max_errors))
    /\ a.r_match = create_primer_match(Align(primers[a.r_primer][2], record.seq, max_errors))

\* C29: for a pair (A, B), A before B in name order, the plus hypothesis
\* aligns A's forward sequence and B's reverse complement and reports
\* forward A, reverse B; the minus hypothesis aligns B's forward sequence and
\* A's reverse complement and reports forward B, reverse A.  With
\* F = ACGTACGT, R = TTTTCCCC, max_errors 3 and min_distance 100, a read with
\* F at 0 and the reverse complement of R at 50 is reported on the plus
\* strand, forward F at 0, reverse R at 50, distance 50, a dimer
C29_Roles ==
    called =>
        /\ analysis[1].strand = "+" =>
              /\ NameLess(analysis[1].f_primer, analysis[1].r_primer)
              /\ RolesOf(analysis[1])
        /\ analysis[1].strand = "-" =>
              /\ NameLess(analysis[1].r_primer, analysis[1].f_primer)
              /\ RolesOf(analysis[1])
        /\ primers = ScenarioTable =>
              /\ analysis[1].strand = "+"
              /\ analysis[1].f_primer = "F"
              /\ analysis[1].r_primer = "R"
              /\ analysis[1].f_match = [position |-> Some(0), errors |-> Some(0), found |-> TRUE]
              /\ analysis[1].r_match = [position |-> Some(50), errors |-> Some(0), found |-> TRUE]
              /\ analysis[1].distance = Some(50)
              /\ analysis[1].is_dimer

\* the read of the scenario, classified
C29_Witness ==
    /\ called
    /\ primers = ScenarioTable
    /\ record.seq = ScenarioRead("T")
    /\ Len(record.seq) = 58
    /\ SubSeq(record.seq, 51, 58) = <<"G", "G", "G", "G", "A", "A", "A", "A">>
    /\ analysis[1].length = 58

\* a read on the minus strand of a pair whose two primers differ in both senses
C29_WitnessMinus ==
    /\ called
    /\ analysis[1].strand = "-"
    /\ analysis[1].f_primer = "S"
    /\ analysis[1].r_primer = "F"
    /\ primers["S"] # primers["F"]
    /\ primers["F"][1] # primers["F"][2]

-----------------------------------------------------------------------------
(* Claims on the records after a malformed one, under SpecResync. *)

\* the pieces the file of the run was put together from
ChunksOf(src) == CHOOSE cs \in ChunkSeqs : LinesOf(cs) = src.r1

\* the places of the records as they should be
GoodPlaces(cs) == {i \in 1..Len(cs) : cs[i] \in GoodChunks}

\* the record next_record yields on a piece alone
RecordOfChunk(chunk) == TheRecord(NewReader, Files(chunk, <<>>, FALSE)).rec

\* the read_id of the rows written
RowIds == {writer.rows[k][1] : k \in 1..Len(writer.rows)}

\* C30: in a run on a file with malformed records, every record of four
\* lines as they should be is yielded: the reads counted are as many as these
\* records, the malformed ones skipped, and without a cap or a failing write
\* each of them has its row
C30_Resynchronised ==
    (wpc = "exited" /\ source \in ResyncSources) =>
        \A cs \in {ChunksOf(source)} :
            /\ writer.stats.total_reads = Cardinality(GoodPlaces(cs))
            /\ (writer.max_output = 0 /\ ~write_failed) =>
                   \A i \in GoodPlaces(cs) : RecordOfChunk(cs[i]).id \in RowIds

\* a record cut after its sequence line, then a record as it should be: the
\* run ends without having yielded any record
C30_RecordLost ==
    /\ wpc = "exited"
    /\ source.r1 = << <<"@", "c">>, <<"T", "A", "T">>,
                      <<"@", "b">>, <<"A", "T", "A">>, <<"+">>, <<"I", "I", "I">> >>
    /\ parser1.eof
    /\ writer.stats.total_reads = 0

\* a quality line starting with '@' taken for an ID line: the record after it is lost
C30_QualityTakenForId ==
    /\ wpc = "exited"
    /\ source.r1 = << <<"c">>, <<"T", "A", "T">>, <<"+">>, <<"@", "I", "I">>,
                      <<"@", "b">>, <<"A", "T", "A">>, <<"+">>, <<"I", "I", "I">> >>
    /\ parser1.eof
    /\ writer.stats.total_reads = 0

\* a record whose lengths differ, all four lines of it read: the record after it is yielded
C30_Resumed ==
    /\ wpc = "exited"
    /\ ~source.paired
    /\ source.r1 = << <<"@", "a", "/", "1">>, <<"T", "A", "T">>, <<"+">>, <<"I">>,
                      <<"@", "b", "/", "1">>, <<"A", "T", "A">>, <<"+">>, <<"I", "I", "I">> >>
    /\ writer.stats.total_reads = 1

-----------------------------------------------------------------------------
(* Claims on the two mate streams after an error, under SpecFiles. *)

\* the next iteration of the main loop gets a record from both parsers and
\* compares their mate identifiers
ComparisonAhead ==
    /\ pc = "loop"
    /\ parser2 # None
    /\ TheRecord(parser1, source).res = Ok(TRUE)
    /\ TheRecord(parser2[1], Mate(source)).res = Ok(TRUE)

\* C31: in a paired run the records compared are the R1 and the R2 record of
\* the same place in their files, also after next_record has failed on one of
\* the streams: with records of four lines each, the two parsers have read
\* the same number of lines whenever a comparison is made
C31_Lockstep == ComparisonAhead => parser1.n = parser2[1].n

\* as long as the first file holds no malformed record the streams stay in
\* step, whatever the second file holds
C31_LockstepCleanR1 ==
    (ComparisonAhead /\ CleanFile(source.r1)) => parser1.n = parser2[1].n

\* a malformed first record in R1, well-formed pairs a and b otherwise: b/1
\* has met a/2, and the run has ended without a read counted
C31_PairsLost ==
    /\ source.paired
    /\ source.r1 = LinesOf(<<FourLines(<<"a", "/", "1">>, <<"T", "A", "T">>, <<"I">>),
                             FourLines(<<"b", "/", "1">>, <<"A", "T", "A">>, <<"I", "I", "I">>)>>)
    /\ source.r2 = LinesOf(<<FourLines(<<"a", "/", "2">>, <<"A", "T", "A">>, <<"I", "I", "I">>),
                             FourLines(<<"b", "/", "2">>, <<"A", "T", "A">>, <<"I", "I", "I">>)>>)
    /\ wpc = "exited"
    /\ parser1.n = 8
    /\ parser2[1].n = 4
    /\ writer.stats.total_reads = 0

\* a malformed first record in R2: a/1 is dropped with it, and b/1 meets b/2
C31_KeptInStep ==
    /\ source.paired
    /\ source.r1 = LinesOf(<<FourLines(<<"a", "/", "1">>, <<"T", "A", "T">>, <<"I", "I", "I">>),
                             FourLines(<<"b", "/", "1">>, <<"A", "T", "A">>, <<"I", "I", "I">>)>>)
    /\ source.r2 = LinesOf(<<FourLines(<<"a", "/", "2">>, <<"T", "A", "T">>, <<"I">>),
                             FourLines(<<"b", "/", "2">>, <<"A", "T", "A">>, <<"I", "I", "I">>)>>)
    /\ wpc = "exited"
    /\ writer.stats.total_reads = 1

-----------------------------------------------------------------------------
(* Claims on the end of the second file, under SpecFilesLive. *)

\* the next iteration of the main loop gets a record from the first parser
\* and the end of the stream from the second
MateEndAhead ==
    /\ pc = "loop"
    /\ parser2 # None
    /\ TheRecord(parser1, source).res = Ok(TRUE)
    /\ TheRecord(parser2[1], Mate(source)).res = Ok(FALSE)

\* two files of well-formed records, the second with fewer records than the first
ShortMateFile ==
    /\ source.paired
    /\ CleanFile(source.r1)
    /\ CleanFile(source.r2)
    /\ RecordsIn(source.r2) < RecordsIn(source.r1)

\* C32: in a paired run, the iteration in which R2 is at its end while R1
\* yields a record leaves the loop: the R1 record is dropped, nothing is
\* pushed or counted, and no R1 record is read after it; the records batched
\* before are classified, and the run drains and finalizes, with total_reads
\* the number of the pairs of one identifier read before R2 ended
C32_MateEndStops ==
    /\ [][(MateEndAhead /\ parser1' # parser1) =>
             /\ pc' = "last"
             /\ parser1'.n = parser1.n + 4
             /\ UNCHANGED <<record_count, current_batch, batch, todo, channel, writer>>]_vars
    /\ [][(pc # "loop" /\ parser2 # None) => parser1' = parser1]_vars
    /\ []((ShortMateFile /\ wpc = "exited") =>
             /\ parser1.n = 4 * (RecordsIn(source.r2) + 1)
             /\ parser2[1].eof
             /\ writer.finished
             /\ channel = <<>>
             /\ record_count = Cardinality(MatchedPlaces)
             /\ writer.stats.total_reads = Cardinality(MatchedPlaces))
    /\ ShortMateFile ~> (wpc = "exited" /\ pc \in {"done", "failed"})

\* R1 holds a and b, R2 holds a alone: the pair a was classified and counted,
\* b/1 was read and dropped, and the run has come to its end
C32_Witness ==
    /\ ShortMateFile
    /\ RecordsIn(source.r1) = 2
    /\ RecordsIn(source.r2) = 1
    /\ MatchedPlaces = {1}
    /\ parser1.n = 8
    /\ parser2[1].eof
    /\ wpc = "exited"
    /\ pc = "done"
    /\ writer.finished
    /\ writer.stats.total_reads = 1

-----------------------------------------------------------------------------
(* Claims on a table of one primer, under SpecMain. *)

\* the catalog can be read and its valid rows all carry one name
OneValidEntry ==
    /\ Readable
    /\ Cardinality({PrimerName(primer_file[i].text) : i \in ValidRows}) = 1

\* C33: a catalog with exactly one valid entry is loaded, the run starts
\* with a table of that entry, and analyze_read has no pair to check: every
\* ReadAnalysis sent has the unknown strand and the placeholders, and
\* both_primers_found, plus_strand, minus_strand and dimer_count are 0 in
\* every state of the run
C33_OnePrimer ==
    (OneValidEntry /\ loaded # None) =>
        /\ loaded[1].tag = "Ok"
        /\ Cardinality(DOMAIN loaded[1].val) = 1
        /\ pc # "failed" \/ wpc = "exited"
        /\ Cardinality(DOMAIN primers) = 1
        /\ \A k \in 1..Len(channel) :
               /\ channel[k].analysis.strand = "?"
               /\ channel[k].analysis.f_primer = "-"
               /\ channel[k].analysis.r_primer = "-"
               /\ ~channel[k].analysis.f_match.found
               /\ ~channel[k].analysis.r_match.found
               /\ ~channel[k].analysis.is_dimer
        /\ writer.stats.both_primers_found = 0
        /\ writer.stats.plus_strand = 0
        /\ writer.stats.minus_strand = 0
        /\ writer.stats.dimer_count = 0
        /\ unknown_count = writer.stats.total_reads
        /\ IsSome(statistics) =>
               /\ statistics[1].both_primers_found = 0
               /\ statistics[1].dimer_count = 0

\* the table of F = A alone, behind a comment; the reads ATA and TAT, in
\* which A and its reverse complement T are both found, were both counted,
\* and under no strand
C33_Witness ==
    /\ primer_file = <<[ok |-> TRUE, text |-> <<"#", "c">>],
                       [ok |-> TRUE, text |-> <<"F", "\t", "A">>]>>
    /\ primers = [n \in {"F"} |-> <<<<"A">>, <<"T">>>>]
    /\ ~source.paired
    /\ wpc = "exited"
    /\ pc = "done"
    /\ writer.stats.total_reads = 2
    /\ unknown_count = 2
    /\ writer.stats.primer_pairs = [k \in {<<"-", "-">>} |-> 2]

\* the same reads with the table of F and R: a read is found on a strand
C33_WitnessTwo ==
    /\ Cardinality(DOMAIN primers) = 2
    /\ wpc = "exited"
    /\ writer.stats.both_primers_found >= 1

\* the catalog without a valid row: the run ends before it reads
C33_WitnessNone ==
    /\ loaded = Some(Err("no_primers"))
    /\ pc = "failed"
    /\ parser1 = NewReader

-----------------------------------------------------------------------------
(* Claims on the read errors of main.rs, under SpecBatch. *)

\* the records the reader delivers, in their order
RECURSIVE RecordsOf(_)
RecordsOf(outcomes) ==
    IF outcomes = <<>> THEN <<>>
    ELSE (IF Head(outcomes).kind = "rec" THEN <<Head(outcomes).rec>> ELSE <<>>)
             \o RecordsOf(Tail(outcomes))

\* C34: when process_reads_parallel has returned, every record the reader
\* could deliver, before and after its errors, has been read and classified:
\* all_analyses holds one ReadAnalysis for each, in the order of the input
C34_ErrorsSkipped ==
    pc = "done" =>
        \A recs \in {RecordsOf(source)} :
            /\ record_count = Len(recs)
            /\ Len(analyses) = Len(recs)
            /\ \A i \in 1..Len(analyses) : analyses[i].read_id = recs[i].id

\* an error on the first read: the run has ended with the record after it unread
C34_EndedAtError ==
    /\ pc = "done"
    /\ Len(source) = 2
    /\ source[1].kind = "err"
    /\ source[2].kind = "rec"
    /\ parser1.n = 1
    /\ analyses = <<>>

\* an error after the first record of a batch: the records before and after
\* it are classified
C34_ErrorInBatch ==
    /\ pc = "done"
    /\ Len(source) = 3
    /\ source[1].kind = "rec"
    /\ source[2].kind = "err"
    /\ source[3].kind = "rec"
    /\ Len(analyses) = 2

====
